---------------------------- MODULE Spec2Model ----------------------------
(***************************************************************************)
(* Model of the SQL usage analytics of the Mario Genie app:                *)
(*   - parse_sql_tables_and_columns (src/stats_page.py), the regex based   *)
(*     extractor of table and column names, computed character by          *)
(*     character as Python's re module computes it;                        *)
(*   - get_sql_usage_analytics (src/event_logger.py), the aggregation of   *)
(*     the extractor's results over the sql_response rows of user_events;  *)
(*   - log_event / log_sql_response, which insert those rows;              *)
(*   - log_feedback and save_comment (src/event_logger.py), which insert   *)
(*     and update the feedback rows of user_events, called one after the   *)
(*     other and, for log_feedback, concurrently;                          *)
(*   - save_favorite and delete_user_favorite over user_favorites, and the *)
(*     context manager get_db_connection all of them run in;               *)
(*   - the chat callbacks handle_all_inputs, get_model_response and        *)
(*     show_chat_history (src/app.py) over the stores of the page.         *)
(*                                                                         *)
(* A Python str is a sequence of one-character strings, so that upper(),   *)
(* lower(), split(), strip() and the regular expressions act on the        *)
(* characters and are not the identity.                                    *)
(***************************************************************************)
EXTENDS Integers, Sequences, FiniteSets, TLC

VARIABLES
    query,        \* extractor run: the shape the input text was drawn from
    sql_query,    \* extractor run: the argument of parse_sql_tables_and_columns
    parsed,       \* extractor run: what the call returned (NotCalled before)
    user_events,  \* the user_events table, rows in insertion order
    now,          \* the clock: NOW() of the database in days; in the
                  \* feedback runs datetime.utcnow(), one tick per call
    days,         \* argument of the last get_sql_usage_analytics call
    results,      \* cur.fetchall() of the last call: the fetched sql_query values
    analytics,    \* what the last call returned (<<>> before the first call)
    snapshot,     \* history: what the last call read, where the extractor
                  \* raised in it and whether it caught an exception
    calls,        \* history: the calls a caller made in a row, each with
                  \* its arguments and what it returned (repeated-call
                  \* runs, feedback runs and favorites runs)
    user_favorites,
                  \* the user_favorites table: its rows and the last value
                  \* of the sequence behind its id column
    connections,  \* the with-blocks entered over get_db_connection, in
                  \* order: where each one stands and the calls made on its
                  \* connection
    transactions, \* concurrent runs: for each caller of log_feedback, where
                  \* its call stands and what its transaction holds
    stores        \* the chat page held by the browser: the data of its
                  \* dcc.Store components and the children of chat-messages,
                  \* handed to every callback and replaced by its outputs

vars ==
    <<query, sql_query, parsed, user_events, now, days, results, analytics,
      snapshot, calls, user_favorites, connections, transactions, stores>>

extractVars == <<query, sql_query, parsed>>

usageVars == <<user_events, now, days, results, analytics, snapshot>>

connVars == <<connections>>

appVars == <<user_favorites, connections, transactions, stores>>

\* The state of the application outside the runs of the analytics.
AppIdle ==
    /\ user_favorites = [rows |-> {}, id_seq |-> 0]
    /\ connections = <<>>
    /\ transactions = <<>>
    /\ stores = <<>>

-----------------------------------------------------------------------------
(* Characters and Python's str methods.                                    *)

LowerLetters ==
    <<"a","b","c","d","e","f","g","h","i","j","k","l","m",
      "n","o","p","q","r","s","t","u","v","w","x","y","z">>

UpperLetters ==
    <<"A","B","C","D","E","F","G","H","I","J","K","L","M",
      "N","O","P","Q","R","S","T","U","V","W","X","Y","Z">>

Digits == {"0","1","2","3","4","5","6","7","8","9"}

Range(f) == {f[i] : i \in DOMAIN f}

\* The regex class [a-zA-Z0-9_].
IdentChars == Range(LowerLetters) \cup Range(UpperLetters) \cup Digits \cup {"_"}

\* The regex class \s and the characters str.strip() removes.
SpaceChars == {" ", "\n", "\t"}

\* The back quote (U+0060), which a TLA+ string literal cannot hold: it is
\* this one token wherever a text contains the character.
BackQuote == "bq"

\* The Kelvin sign (U+212A), one token as well: a character that is no
\* ASCII letter, that str.upper() leaves alone and that str.lower() turns
\* into the ASCII letter k.
KelvinSign == "K_sign"

IsIdent(c) == c \in IdentChars

IsSpace(c) == c \in SpaceChars

IndexIn(c, letters) == CHOOSE i \in DOMAIN letters : letters[i] = c

\* The upper-case letter of each lower-case one, and the reverse.
ToUpper == [c \in Range(LowerLetters) |-> UpperLetters[IndexIn(c, LowerLetters)]]

ToLower ==
    [c \in Range(UpperLetters) \cup {KelvinSign} |->
        IF c = KelvinSign THEN "k" ELSE LowerLetters[IndexIn(c, UpperLetters)]]

\* str.upper() / str.lower() of one character.
UpperChar(c) == IF c \in DOMAIN ToUpper THEN ToUpper[c] ELSE c

LowerChar(c) == IF c \in DOMAIN ToLower THEN ToLower[c] ELSE c

\* str.upper(): sql_clean = sql_query.upper()
Upper(s) == [i \in DOMAIN s |-> UpperChar(s[i])]

\* str.lower()
Lower(s) == [i \in DOMAIN s |-> LowerChar(s[i])]

\* s[i-1:] starts with the literal w (i is 1-based).
StartsWith(s, i, w) ==
    /\ i + Len(w) - 1 <= Len(s)
    /\ \A k \in 1..Len(w) : s[i + k - 1] = w[k]

RECURSIVE IdentRunEnd(_, _)
\* [a-zA-Z0-9_]* matched greedily at i: the index just after the run.
IdentRunEnd(s, i) ==
    IF i <= Len(s) /\ IsIdent(s[i]) THEN IdentRunEnd(s, i + 1) ELSE i

RECURSIVE SpaceRunEnd(_, _)
\* \s* matched greedily at i: the index just after the run.
SpaceRunEnd(s, i) ==
    IF i <= Len(s) /\ IsSpace(s[i]) THEN SpaceRunEnd(s, i + 1) ELSE i

RECURSIVE JoinWith(_, _)
\* sep.join(parts)
JoinWith(parts, sep) ==
    IF parts = <<>> THEN <<>>
    ELSE IF Len(parts) = 1 THEN parts[1]
    ELSE parts[1] \o sep \o JoinWith(Tail(parts), sep)

RECURSIVE SplitFrom(_, _, _, _)
\* s.split(sep) for a one-character sep: the pieces from index i on, cur being
\* the piece read so far.
SplitFrom(s, sep, i, cur) ==
    IF i > Len(s) THEN <<cur>>
    ELSE IF s[i] = sep THEN <<cur>> \o SplitFrom(s, sep, i + 1, <<>>)
    ELSE SplitFrom(s, sep, i + 1, Append(cur, s[i]))

Split(s, sep) == SplitFrom(s, sep, 1, <<>>)

RECURSIVE LStrip(_)
LStrip(s) == IF s # <<>> /\ IsSpace(s[1]) THEN LStrip(Tail(s)) ELSE s

RECURSIVE RStrip(_)
RStrip(s) ==
    IF s # <<>> /\ IsSpace(s[Len(s)]) THEN RStrip(SubSeq(s, 1, Len(s) - 1)) ELSE s

\* str.strip()
Strip(s) == RStrip(LStrip(s))

\* x in list
InList(x, list) == \E i \in DOMAIN list : list[i] = x

-----------------------------------------------------------------------------
(* The two regular expressions of parse_sql_tables_and_columns, matched as  *)
(* Python's backtracking matcher matches them: alternatives in order,       *)
(* greedy quantifiers longest first, the lazy one shortest first.           *)

KwFrom == <<"F","R","O","M">>

KwJoin == <<"J","O","I","N">>

KwSelect == <<"S","E","L","E","C","T">>

NoMatch == [matched |-> FALSE]

\* A group ([a-zA-Z0-9_]+\.) at p: its text, the dot included, or <<>> when it
\* does not match there (a shorter run is followed by an identifier
\* character, never by the dot, so only the longest run can match).
DottedPartAt(s, p) ==
    LET e == IdentRunEnd(s, p)
    IN IF e > p /\ e <= Len(s) /\ s[e] = "." THEN SubSeq(s, p, e) ELSE <<>>

\* ([a-zA-Z0-9_]+)(?:`)? at p, the groups g1 and g2 being matched already.
LastPartAt(s, p, g1, g2) ==
    LET e == IdentRunEnd(s, p)
    IN IF e > p
       THEN [matched |-> TRUE,
             groups |-> <<g1, g2, SubSeq(s, p, e - 1)>>,
             end |-> IF e <= Len(s) /\ s[e] = BackQuote THEN e + 1 ELSE e]
       ELSE NoMatch

\* ([a-zA-Z0-9_]+\.)?([a-zA-Z0-9_]+\.)?([a-zA-Z0-9_]+)(?:`)? at p. An optional
\* group is tried taken first and skipped on backtracking; a group that did
\* not take part is '' in the tuple re.findall returns.
TableRefAt(s, p) ==
    LET g1 == DottedPartAt(s, p)
        g2 == DottedPartAt(s, p + Len(g1))
        both == LastPartAt(s, p + Len(g1) + Len(g2), g1, g2)
        first == LastPartAt(s, p + Len(g1), g1, <<>>)
        second == LastPartAt(s, p + Len(g1), <<>>, g1)
    IN IF g1 # <<>> /\ g2 # <<>> /\ both.matched THEN both
       ELSE IF g1 # <<>> /\ first.matched THEN first
       ELSE IF g1 # <<>> /\ second.matched THEN second
       ELSE LastPartAt(s, p, <<>>, <<>>)

\* from_pattern, line 393, at index i:
\*   (?:FROM|JOIN)\s+(?:`)?([a-zA-Z0-9_]+\.)?([a-zA-Z0-9_]+\.)?([a-zA-Z0-9_]+)(?:`)?
\* \s+ takes the whole run of white space: giving some back leaves a white
\* space character where a back quote or an identifier must start.
FromPatternAt(s, i) ==
    LET b == SpaceRunEnd(s, i + 4)
        quoted == IF b <= Len(s) /\ s[b] = BackQuote THEN TableRefAt(s, b + 1) ELSE NoMatch
    IN IF ~(StartsWith(s, i, KwFrom) \/ StartsWith(s, i, KwJoin)) THEN NoMatch
       ELSE IF b = i + 4 THEN NoMatch
       ELSE IF quoted.matched THEN quoted
       ELSE TableRefAt(s, b)

RECURSIVE FindAllFrom(_, _)
\* re.findall(from_pattern, s): the group tuples of the non-overlapping
\* matches, leftmost first, the scan resuming where a match ended.
FindAllFrom(s, i) ==
    IF i > Len(s) THEN <<>>
    ELSE LET m == FromPatternAt(s, i)
         IN IF m.matched THEN <<m.groups>> \o FindAllFrom(s, m.end)
            ELSE FindAllFrom(s, i + 1)

RECURSIVE SpaceFromAt(_, _)
\* The least e >= k with \s+FROM matching at e, or 0 when there is none.
SpaceFromAt(s, k) ==
    IF k > Len(s) THEN 0
    ELSE IF SpaceRunEnd(s, k) > k /\ StartsWith(s, SpaceRunEnd(s, k), KwFrom) THEN k
    ELSE SpaceFromAt(s, k + 1)

RECURSIVE SelectGroupFrom(_, _, _)
\* SELECT\s+(.*?)\s+FROM with SELECT matched and \s+ ending before k: \s+
\* gives back one character at a time down to lo; (.*?) grows from k to the
\* first place where \s+FROM follows (re.DOTALL: any character).
SelectGroupFrom(s, k, lo) ==
    IF k < lo THEN NoMatch
    ELSE LET e == SpaceFromAt(s, k)
         IN IF e # 0 THEN [matched |-> TRUE, group |-> SubSeq(s, k, e - 1)]
            ELSE SelectGroupFrom(s, k - 1, lo)

\* select_pattern, line 405, at index i.
SelectPatternAt(s, i) ==
    LET b == SpaceRunEnd(s, i + 6)
    IN IF ~StartsWith(s, i, KwSelect) \/ b = i + 6 THEN NoMatch
       ELSE SelectGroupFrom(s, b, i + 7)

RECURSIVE SearchSelect(_, _)
\* re.search(select_pattern, s, re.DOTALL): the leftmost match.
SearchSelect(s, i) ==
    IF i > Len(s) THEN NoMatch
    ELSE LET m == SelectPatternAt(s, i)
         IN IF m.matched THEN m ELSE SearchSelect(s, i + 1)

\* SearchColumn taking the whole fragment as the column, whatever it holds.
SearchColumn_any_token(part, i) ==
    IF part = <<>> THEN NoMatch ELSE [matched |-> TRUE, group |-> part]

\* SearchColumn taking the last identifier of the fragment, its alias when
\* it has one.
SearchColumn_last_token(part, i) ==
    LET starts == {p \in i..Len(part) :
                      IsIdent(part[p]) /\ (p = 1 \/ ~IsIdent(part[p - 1]))}
    IN  IF starts = {} THEN NoMatch
        ELSE LET p == CHOOSE q \in starts : \A r \in starts : r <= q
             IN  [matched |-> TRUE,
                  group |-> SubSeq(part, p, IdentRunEnd(part, p) - 1)]

RECURSIVE SearchColumn(_, _)
\* re.search(r'(?:`)?([a-zA-Z0-9_]+)(?:`)?(?:\s+AS)?', part), line 415: the
\* leftmost place where an identifier, or a back quote and an identifier,
\* starts; group(1) is the whole run of identifier characters.
SearchColumn(part, i) ==
    IF i > Len(part) THEN NoMatch
    ELSE LET p == IF part[i] = BackQuote /\ IdentRunEnd(part, i + 1) > i + 1 THEN i + 1 ELSE i
             e == IdentRunEnd(part, p)
         IN IF e > p THEN [matched |-> TRUE, group |-> SubSeq(part, p, e - 1)]
            ELSE SearchColumn(part, i + 1)

-----------------------------------------------------------------------------
(* parse_sql_tables_and_columns, src/stats_page.py lines 375-423.           *)

\* Python values that reach the extractor: a str, None, or a value of
\* another type (an int stands for these).
PyStr(text) == [type |-> "str", text |-> text, value |-> 0]

PyNone == [type |-> "NoneType", text |-> <<>>, value |-> 0]

PyInt(n) == [type |-> "int", text |-> <<>>, value |-> n]

\* bool(v), as "if not sql_query" and "if sql_query" evaluate it.
Truthy(v) ==
    CASE v.type = "str" -> v.text # <<>>
      [] v.type = "int" -> v.value # 0
      [] OTHER -> FALSE

\* The outcome of a call: the returned dict, or an exception.
Returned(tables, columns) ==
    [raised |-> FALSE, tables |-> tables, columns |-> columns]

Raised == [raised |-> TRUE, tables |-> <<>>, columns |-> <<>>]

\* The keyword list of line 419.
SqlKeywords ==
    << <<"a","s">>, <<"f","r","o","m">>, <<"w","h","e","r","e">>,
       <<"s","e","l","e","c","t">>, <<"d","i","s","t","i","n","c","t">>,
       <<"c","o","u","n","t">>, <<"s","u","m">>, <<"a","v","g">>,
       <<"m","a","x">>, <<"m","i","n">>, <<"c","a","s","e">>,
       <<"w","h","e","n">>, <<"t","h","e","n">>, <<"e","l","s","e">>,
       <<"e","n","d">> >>

\* p and p != '.', the filter of line 397.
IsTablePart(p) == p # <<>> /\ p # <<".">>

RECURSIVE TablesOf_keeping_duplicates(_, _)
\* TablesOf without the "if full_table not in tables" of line 400.
TablesOf_keeping_duplicates(matches, tables) ==
    IF matches = <<>> THEN tables
    ELSE LET table_parts == SelectSeq(Head(matches), IsTablePart)
             full_table == Lower(JoinWith(table_parts, <<".">>))
         IN TablesOf_keeping_duplicates(Tail(matches),
                     IF table_parts # <<>>
                     THEN Append(tables, full_table)
                     ELSE tables)

RECURSIVE TablesOf(_, _)
\* The loop of lines 395-401 over the remaining matches.
TablesOf(matches, tables) ==
    IF matches = <<>> THEN tables
    ELSE LET table_parts == SelectSeq(Head(matches), IsTablePart)
             full_table == Lower(JoinWith(table_parts, <<".">>))
         IN TablesOf(Tail(matches),
                     IF table_parts # <<>> /\ ~InList(full_table, tables)
                     THEN Append(tables, full_table)
                     ELSE tables)

\* Lines 393-401: the tables of the upper-cased text.
ExtractTables(sql_clean) == TablesOf(FindAllFrom(sql_clean, 1), <<>>)

RECURSIVE ColumnsOf_without_denylist(_, _)
\* ColumnsOf without the keyword test of line 419.
ColumnsOf_without_denylist(parts, columns) ==
    IF parts = <<>> THEN columns
    ELSE LET part == Strip(Head(parts))
             col_match == SearchColumn(part, 1)
             col_name == Lower(col_match.group)
         IN ColumnsOf_without_denylist(Tail(parts),
                      IF col_match.matched /\ ~InList(col_name, columns)
                      THEN Append(columns, col_name)
                      ELSE columns)

RECURSIVE ColumnsOf(_, _)
\* The loop of lines 411-421 over the remaining parts of the select clause.
ColumnsOf(parts, columns) ==
    IF parts = <<>> THEN columns
    ELSE LET part == Strip(Head(parts))
             col_match == SearchColumn(part, 1)
             col_name == Lower(col_match.group)
         IN ColumnsOf(Tail(parts),
                      IF /\ col_match.matched
                         /\ ~InList(col_name, SqlKeywords)
                         /\ ~InList(col_name, columns)
                      THEN Append(columns, col_name)
                      ELSE columns)

\* ExtractColumns reading the whole text as the select list when the select
\* pattern finds no match.
ExtractColumns_of_whole_text(sql_clean) ==
    LET select_match == SearchSelect(sql_clean, 1)
    IN IF select_match.matched
       THEN ColumnsOf(Split(select_match.group, ","), <<>>)
       ELSE ColumnsOf(Split(sql_clean, ","), <<>>)

\* Lines 405-421: the columns of the upper-cased text.
ExtractColumns(sql_clean) ==
    LET select_match == SearchSelect(sql_clean, 1)
    IN IF select_match.matched
       THEN ColumnsOf(Split(select_match.group, ","), <<>>)
       ELSE <<>>

\* parse_sql_tables_and_columns without the "if not sql_query" of lines
\* 385-386: None has no upper().
parse_without_empty_check(v) ==
    IF v.type # "str" THEN Raised
    ELSE LET sql_clean == Upper(v.text)
         IN Returned(ExtractTables(sql_clean), ExtractColumns(sql_clean))

\* parse_sql_tables_and_columns without the "if select_match:" of line 407:
\* group(1) of None raises when the text has no SELECT ... FROM.
parse_without_match_check(v) ==
    IF ~Truthy(v) THEN Returned(<<>>, <<>>)
    ELSE IF v.type # "str" THEN Raised
    ELSE LET sql_clean == Upper(v.text)
         IN IF SearchSelect(sql_clean, 1).matched
            THEN Returned(ExtractTables(sql_clean), ExtractColumns(sql_clean))
            ELSE Raised

parse_sql_tables_and_columns(v) ==
    IF ~Truthy(v) THEN Returned(<<>>, <<>>)
    ELSE IF v.type # "str" THEN Raised    \* line 389: no upper() on the value
    ELSE LET sql_clean == Upper(v.text)
         IN Returned(ExtractTables(sql_clean), ExtractColumns(sql_clean))

-----------------------------------------------------------------------------
(* The inputs of the extractor runs: texts rendered from a bounded family   *)
(* of query shapes, and literal inputs (the documented examples, malformed  *)
(* texts, the empty text, None and a value that is no str).                 *)

\* Most dot-separated parts of a generated table reference.
MaxParts == 3

\* Most FROM/JOIN clauses of a generated query.
MaxClauses == 2

TextSelectAB ==
    <<"S","E","L","E","C","T"," ","a",","," ","b"," ","F","R","O","M"," ",
      "t">>

TextQuoted ==
    <<"S","E","L","E","C","T"," ","x"," ","F","R","O","M"," ",BackQuote,"c",
      "a","t",BackQuote,".",BackQuote,"s","c","h",BackQuote,".",BackQuote,
      "t","b","l",BackQuote>>

TextAliases ==
    <<"S","E","L","E","C","T"," ","*"," ","F","R","O","M"," ","o","r","d",
      "e","r","s"," ","o"," ","J","O","I","N"," ","c","u","s","t","o","m",
      "e","r","s"," ","c"," ","O","N"," ","o",".","c","i","d","=","c",".",
      "i","d">>

TextTwoParts ==
    <<"F","R","O","M"," ","S","a","l","e","s",".","O","r","d","e","r","s">>

TextThreeParts ==
    <<"F","R","O","M"," ","C",".","S",".","T">>

TextOnePart ==
    <<"F","R","O","M"," ","T">>

TextOnlySelect ==
    <<"S","E","L","E","C","T">>

TextOnlyFrom ==
    <<"F","R","O","M">>

TextSelectFrom ==
    <<"S","E","L","E","C","T"," "," ","F","R","O","M">>

TextOpenQuote ==
    <<"F","R","O","M"," ",BackQuote>>

TextCommas ==
    <<"S","E","L","E","C","T"," ",",",","," ","F","R","O","M"," ",".">>

TextTrailingDot ==
    <<"s","e","l","e","c","t"," ","x","\n","f","r","o","m"," ","a",".","b",
      "."," ","J","O","I","N","\t",BackQuote>>

TextDelete ==
    <<"D","E","L","E","T","E"," ","F","R","O","M"," ","t"," ","W","H","E",
      "R","E"," ","a"," ","="," ","1">>

TextKelvin ==
    <<"F","R","O","M"," ",KelvinSign>>

TextSubquery ==
    <<"S","E","L","E","C","T"," ","a"," ","F","R","O","M"," ","(","S","E",
      "L","E","C","T"," ","b"," ","F","R","O","M"," ","u",")"," ","x"," ",
      "J","O","I","N"," ","v">>

TextNested ==
    <<"s","e","l","e","c","t"," ","a"," ","f","r","o","m"," ","t"," ","w",
      "h","e","r","e"," ","b"," ","i","n"," ","(","s","e","l","e","c","t",
      " ","c"," ","f","r","o","m"," ","u"," ","w","h","e","r","e"," ","d",
      " ","i","n"," ","(","s","e","l","e","c","t"," ","e"," ","f","r","o",
      "m"," ","w",")",")">>

TextNestedDotted ==
    <<"S","E","L","E","C","T"," ","a"," ","F","R","O","M"," ","t"," ","W",
      "H","E","R","E"," ","b"," ","I","N"," ","(","S","E","L","E","C","T",
      " ","c"," ","F","R","O","M"," ","S","a","l","e","s",".","O","r","d",
      "e","r","s",")">>

TextDateFrom ==
    <<"S","E","L","E","C","T"," ","d","a","t","e","_","f","r","o","m"," ",
      "d"," ","F","R","O","M"," ","t">>

\* The literal inputs, by their index in a shape's "literal" field.
LiteralInputs ==
    <<PyStr(TextSelectAB),
      PyStr(TextQuoted),
      PyStr(TextAliases),
      PyStr(TextTwoParts),
      PyStr(TextThreeParts),
      PyStr(TextOnePart),
      PyStr(TextOnlySelect),
      PyStr(TextOnlyFrom),
      PyStr(TextSelectFrom),
      PyStr(TextOpenQuote),
      PyStr(TextCommas),
      PyStr(TextTrailingDot),
      PyStr(<<>>), PyNone, PyInt(5),
      PyStr(TextDelete),
      PyStr(TextKelvin),
      PyStr(TextSubquery),
      PyStr(TextNested),
      PyStr(TextNestedDotted),
      PyStr(TextDateFrom)>>

NameT == <<"t">>

NameU == <<"u">>

NameDFrom == <<"D","_","f","r","o","m">>

AliasO == <<"o">>

\* The names a generated table reference is made of.
Names == {NameT, NameDFrom}

PartSeqs == UNION {[1..n -> Names] : n \in 1..MaxParts}

\* The spellings of the keyword before the first table reference.
Keywords == {KwFrom, KwJoin, <<"f","r","o","m">>}

\* No alias, a bare alias, an alias after AS.
Aliases ==
    {[as |-> FALSE, name |-> <<>>], [as |-> FALSE, name |-> AliasO],
     [as |-> TRUE, name |-> AliasO]}

\* quote: "none" no part is back-quoted, "each" every part is, "head" every
\* part but the last is.
FirstClauses ==
    {c \in [kw : Keywords, parts : PartSeqs,
            quote : {"none", "each", "head"}, alias : Aliases] :
        c.quote = "head" => Len(c.parts) > 1}

\* The clauses that may follow the first one.
JoinClauses ==
    {[kw |-> KwJoin, parts |-> <<NameU>>, quote |-> "none",
      alias |-> [as |-> FALSE, name |-> <<>>]],
     [kw |-> KwJoin, parts |-> <<NameT>>, quote |-> "none",
      alias |-> [as |-> FALSE, name |-> AliasO]]}

ClauseSeqs ==
    {<<>>} \cup
    {<<c>> \o js : c \in FirstClauses,
                   js \in UNION {[1..n -> JoinClauses] : n \in 0..(MaxClauses - 1)}}

\* The select lists, as their comma-separated fragments; <<>> is a text
\* without SELECT.
SelectLists ==
    {<<>>, << <<"*">> >>, << <<"x">> >>, << <<"a">>, <<"B">> >>,
     << <<"d","_","f","r","o","m">> >>,
     << <<"c","o","u","n","t","(","x",")">>,
        <<"D","i","s","t","i","n","c","t"," ","a">>, <<"y">> >>,
     << <<"a"," ","A","S"," ","b">>,
        <<"C","O","U","N","T","(","x",")"," ","A","S"," ","n">>,
        <<BackQuote,"c",BackQuote," ","a","s"," ","d">> >>}

Shapes ==
    [literal : {0}, select : SelectLists, clauses : ClauseSeqs]
    \cup [literal : DOMAIN LiteralInputs, select : {<<>>}, clauses : {<<>>}]

IsQuoted(c, i) ==
    c.quote = "each" \/ (c.quote = "head" /\ i < Len(c.parts))

RenderRef(c) ==
    JoinWith([i \in 1..Len(c.parts) |->
                 IF IsQuoted(c, i)
                 THEN <<BackQuote>> \o c.parts[i] \o <<BackQuote>>
                 ELSE c.parts[i]],
             <<".">>)

RenderClause(c) ==
    c.kw \o <<" ">> \o RenderRef(c)
    \o (IF c.alias.name = <<>> THEN <<>>
        ELSE <<" ">> \o (IF c.alias.as THEN <<"A","S"," ">> ELSE <<>>)
             \o c.alias.name)

RenderSelect(select) ==
    IF select = <<>> THEN <<>>
    ELSE KwSelect \o <<" ">> \o JoinWith(select, <<",", " ">>)

NonEmpty(s) == s # <<>>

\* The text of a generated shape.
Render(q) ==
    JoinWith(SelectSeq(<<RenderSelect(q.select)>>
                       \o [i \in 1..Len(q.clauses) |-> RenderClause(q.clauses[i])],
                       NonEmpty),
             <<" ">>)

\* The value handed to the extractor for a shape.
InputOf(q) ==
    IF q.literal = 0 THEN PyStr(Render(q)) ELSE LiteralInputs[q.literal]

-----------------------------------------------------------------------------
(* The extractor runs: one call of parse_sql_tables_and_columns on an       *)
(* input drawn at the start.                                                *)

UsageIdle ==
    /\ user_events = <<>>
    /\ now = 0
    /\ days = 0
    /\ results = <<>>
    /\ analytics = <<>>
    /\ snapshot = [user_events |-> <<>>, now |-> 0, faults |-> {}, caught |-> FALSE]
    /\ calls = <<>>
    /\ AppIdle

InitExtract ==
    /\ query \in Shapes
    /\ sql_query = InputOf(query)
    /\ parsed = <<>>
    /\ UsageIdle

\* parsed = <<r>> once the call has ended with outcome r.
Extract ==
    /\ parsed = <<>>
    /\ parsed' = <<parse_sql_tables_and_columns(sql_query)>>
    /\ UNCHANGED <<query, sql_query>>
    /\ UNCHANGED usageVars
    /\ UNCHANGED calls
    /\ UNCHANGED appVars

NextExtract == Extract

SpecExtract == InitExtract /\ [][NextExtract]_vars

Called == parsed # <<>>

Result == parsed[1]

\* The elements of a Python list.
Elements(list) == Range(list)

NoDuplicates(list) ==
    \A i, j \in DOMAIN list : list[i] = list[j] => i = j

-----------------------------------------------------------------------------
(* The user_events table and get_sql_usage_analytics,                       *)
(* src/event_logger.py lines 95-154, 217-241 and 567-644.                   *)

\* Most rows of user_events in a run.
MaxEvents == 2

\* The instants, in days, at which the clock is read: at day 8 a row of day
\* 0 is outside the 7 day window, a row of day 1 exactly on its edge and a
\* row of day 8 inside.
Instants == {0, 1, 8}

\* The days arguments of the calls: 0 is "all time" (app.py days_map).
DaysChoices == {0, 7}

QueryTwoTables ==
    <<"S","E","L","E","C","T"," ","a",","," ","b"," ","F","R","O","M"," ",
      "t"," ","J","O","I","N"," ","u">>

QueryRepeated ==
    <<"s","e","l","e","c","t"," ","a",","," ","A"," ","f","r","o","m"," ",
      "t"," ","j","o","i","n"," ","T">>

\* The query texts that get logged.
QueryPool == {QueryTwoTables, QueryRepeated}

\* A metadata column: SQL NULL (has = FALSE), or a JSON object that holds
\* the key sql_query (key = TRUE, its value a text or JSON null) or not.
NoMetadata == [has |-> FALSE, key |-> FALSE, sql_query |-> PyNone]

MetadataWithout == [has |-> TRUE, key |-> FALSE, sql_query |-> PyNone]

MetadataWith(v) == [has |-> TRUE, key |-> TRUE, sql_query |-> v]

\* log_event, lines 95-154: one row inserted, stamped datetime.utcnow().
log_event(events, clock, event_type, metadata) ==
    Append(events,
           [event_type |-> event_type, metadata |-> metadata, timestamp |-> clock])

\* log_sql_response(sql_query): metadata = {"question": ..., "sql_query": ...}.
LogSqlResponse(v) ==
    /\ Len(user_events) < MaxEvents
    /\ user_events' = log_event(user_events, now, "sql_response", MetadataWith(v))
    /\ UNCHANGED <<now, days, results, analytics, snapshot, calls>>
    /\ UNCHANGED appVars
    /\ UNCHANGED extractVars

\* log_event called with a metadata that holds no sql_query: a sql_response
\* row without metadata, or a send_message row.
LogOtherEvent(event_type, metadata) ==
    /\ Len(user_events) < MaxEvents
    /\ user_events' = log_event(user_events, now, event_type, metadata)
    /\ UNCHANGED <<now, days, results, analytics, snapshot, calls>>
    /\ UNCHANGED appVars
    /\ UNCHANGED extractVars

\* Time passes.
Tick ==
    /\ \E later \in Instants : later > now /\ now' = later
    /\ UNCHANGED <<user_events, days, results, analytics, snapshot, calls>>
    /\ UNCHANGED appVars
    /\ UNCHANGED extractVars

\* metadata->>'sql_query': SQL NULL (None) for a NULL metadata, a missing key
\* or a JSON null, else the text.
SqlQueryOf(row) ==
    IF row.metadata.has /\ row.metadata.key THEN row.metadata.sql_query ELSE PyNone

\* Selected with the date filter built for every days, 0 included.
Selected_filtering_all_time(row, clock, d) ==
    /\ row.event_type = "sql_response"
    /\ row.metadata.has /\ row.metadata.key /\ row.metadata.sql_query # PyNone
    /\ row.timestamp >= clock - d

\* The WHERE clause of lines 589-592, days being the call's argument.
Selected(row, clock, d) ==
    /\ row.event_type = "sql_response"
    /\ SqlQueryOf(row) # PyNone
    /\ (d > 0 => row.timestamp >= clock - d)

\* cur.fetchall() of the query of lines 586-593: row[0] of every selected row.
FetchAll(events, clock, d) ==
    LET rows == SelectSeq(events, LAMBDA row : Selected(row, clock, d))
    IN [i \in DOMAIN rows |-> SqlQueryOf(rows[i])]

\* collections.Counter: the keys in insertion order, each with its count.
RECURSIVE Increment_assigning(_, _)
\* Increment with counter[key] = 1 in place of counter[key] += 1.
Increment_assigning(counter, key) ==
    IF counter = <<>> THEN <<[key |-> key, count |-> 1]>>
    ELSE IF Head(counter).key = key
    THEN <<[Head(counter) EXCEPT !.count = 1]>> \o Tail(counter)
    ELSE <<Head(counter)>> \o Increment_assigning(Tail(counter), key)

RECURSIVE Increment(_, _)
\* counter[key] += 1
Increment(counter, key) ==
    IF counter = <<>> THEN <<[key |-> key, count |-> 1]>>
    ELSE IF Head(counter).key = key
    THEN <<[Head(counter) EXCEPT !.count = @ + 1]>> \o Tail(counter)
    ELSE <<Head(counter)>> \o Increment(Tail(counter), key)

RECURSIVE IncrementAll(_, _)
\* for key in keys: counter[key] += 1
IncrementAll(counter, keys) ==
    IF keys = <<>> THEN counter
    ELSE IncrementAll(Increment(counter, Head(keys)), Tail(keys))

\* PairsOf pairing the i-th table with the i-th column (zip) instead of
\* nesting the two loops.
PairsOf_zipped(tables, columns) ==
    [n \in 1..(IF Len(tables) < Len(columns) THEN Len(tables) ELSE Len(columns)) |->
        <<tables[n], columns[n]>>]

\* The (table, column) keys in the order lines 612-617 count them.
PairsOf(tables, columns) ==
    [n \in 1..(Len(tables) * Len(columns)) |->
        <<tables[((n - 1) \div Len(columns)) + 1],
          columns[((n - 1) % Len(columns)) + 1]>>]

\* Lines 611-621 for one parsed query.
CountQuery(counters, p) ==
    [table_counter |-> IncrementAll(counters.table_counter, p.tables),
     column_counter |-> IncrementAll(counters.column_counter, p.columns),
     table_column_counter |->
         IncrementAll(counters.table_column_counter, PairsOf(p.tables, p.columns))]

\* EmptyCounters with the counts of the previous call left in the counters
\* (counters kept at module level instead of made in the call).
EmptyCounters_kept_from_last_call ==
    IF analytics = <<>>
    THEN [table_counter |-> <<>>, column_counter |-> <<>>,
          table_column_counter |-> <<>>]
    ELSE [table_counter |->
             [i \in DOMAIN analytics[1].tables |->
                 [key |-> analytics[1].tables[i].table_name,
                  count |-> analytics[1].tables[i].count]],
          column_counter |->
             [i \in DOMAIN analytics[1].columns |->
                 [key |-> analytics[1].columns[i].column_name,
                  count |-> analytics[1].columns[i].count]],
          table_column_counter |->
             [i \in DOMAIN analytics[1].table_columns |->
                 [key |-> <<analytics[1].table_columns[i].table_name,
                            analytics[1].table_columns[i].column_name>>,
                  count |-> analytics[1].table_columns[i].count]]]

\* Lines 598-600: three new Counter() in every call.
EmptyCounters ==
    [table_counter |-> <<>>, column_counter |-> <<>>, table_column_counter |-> <<>>]

\* parsed = parse_sql_tables_and_columns(sql_query), line 609.
ParseFetched(v) == parse_sql_tables_and_columns(v)

RECURSIVE CountRows_stopping_at_blank(_, _, _, _)
\* CountRows leaving the loop at the first row without a text (break).
CountRows_stopping_at_blank(rows, i, faults, counters) ==
    IF i > Len(rows) THEN [raised |-> FALSE, counters |-> counters]
    ELSE IF ~Truthy(rows[i]) THEN [raised |-> FALSE, counters |-> counters]
    ELSE LET p == IF i \in faults THEN Raised
                  ELSE ParseFetched(rows[i])
         IN IF p.raised THEN [raised |-> TRUE, counters |-> EmptyCounters]
            ELSE CountRows_stopping_at_blank(rows, i + 1, faults,
                                             CountQuery(counters, p))

RECURSIVE CountRows(_, _, _, _)
\* The loop of lines 606-621 from row i on. faults holds the rows at which
\* the call of line 609 raises. The outcome is the counters, or Raised when
\* an exception leaves the loop.
CountRows(rows, i, faults, counters) ==
    IF i > Len(rows) THEN [raised |-> FALSE, counters |-> counters]
    ELSE IF ~Truthy(rows[i]) THEN CountRows(rows, i + 1, faults, counters)
    ELSE LET p == IF i \in faults THEN Raised
                  ELSE ParseFetched(rows[i])
         IN IF p.raised THEN [raised |-> TRUE, counters |-> EmptyCounters]
            ELSE CountRows(rows, i + 1, faults, CountQuery(counters, p))

\* Lines 624-637: the three lists made of the counters.
FormatResults(counters) ==
    [tables |-> [i \in DOMAIN counters.table_counter |->
                    [table_name |-> counters.table_counter[i].key,
                     count |-> counters.table_counter[i].count]],
     columns |-> [i \in DOMAIN counters.column_counter |->
                    [column_name |-> counters.column_counter[i].key,
                     count |-> counters.column_counter[i].count]],
     table_columns |-> [i \in DOMAIN counters.table_column_counter |->
                    [table_name |-> counters.table_column_counter[i].key[1],
                     column_name |-> counters.table_column_counter[i].key[2],
                     count |-> counters.table_column_counter[i].count]]]

\* ResultOf without the except clauses of lines 639-644: the exception
\* leaves the function.
ResultOf_reraising(outcome) ==
    IF outcome.raised THEN [exception |-> "raised"]
    ELSE FormatResults(outcome.counters)

\* What get_sql_usage_analytics returns for the fetched rows: the lists of
\* lines 633-637, or the empty lists of line 644 when an exception was caught.
ResultOf(outcome) ==
    IF outcome.raised THEN FormatResults(EmptyCounters)
    ELSE FormatResults(outcome.counters)

\* The value returned for the fetched rows, the extractor raising at the
\* rows in faults.
UsageOf(rows, faults) == ResultOf(CountRows(rows, 1, faults, EmptyCounters))

\* get_sql_usage_analytics(d), the extractor raising at the rows in faults.
get_sql_usage_analytics(d, faults) ==
    LET rows == FetchAll(user_events, now, d)
        outcome == CountRows(rows, 1, faults, EmptyCounters)
    IN /\ faults \subseteq DOMAIN rows
       /\ days' = d
       /\ results' = rows
       /\ analytics' = <<ResultOf(outcome)>>
       /\ snapshot' = [user_events |-> user_events, now |-> now,
                       faults |-> faults, caught |-> outcome.raised]
       /\ UNCHANGED <<user_events, now>>
       /\ UNCHANGED extractVars
       /\ UNCHANGED appVars

ExtractIdle ==
    /\ query = [literal |-> 0, select |-> <<>>, clauses |-> <<>>]
    /\ sql_query = PyNone
    /\ parsed = <<>>

Init ==
    /\ ExtractIdle
    /\ UsageIdle

LogSome ==
    \/ \E v \in {PyStr(text) : text \in QueryPool} \cup {PyStr(<<>>), PyNone} :
          LogSqlResponse(v)
    \/ LogOtherEvent("sql_response", NoMetadata)
    \/ LogOtherEvent("send_message", MetadataWithout)

\* The extractor does not raise on a text, and a fetched value is a text.
Next ==
    \/ LogSome
    \/ Tick
    \/ \E d \in DaysChoices : get_sql_usage_analytics(d, {}) /\ UNCHANGED calls

Spec == Init /\ [][Next]_vars

\* The runs in which the call of line 609 may raise.
NextFault ==
    \/ LogSome
    \/ Tick
    \/ \E d \in DaysChoices :
          \E faults \in SUBSET (1..MaxEvents) :
             get_sql_usage_analytics(d, faults) /\ UNCHANGED calls

SpecFault == Init /\ [][NextFault]_vars

-----------------------------------------------------------------------------
(* The merge runs: one call of get_sql_usage_analytics, for all time, over  *)
(* a history of logged queries drawn at the start.                          *)

\* Most rows of a drawn history.
MaxRows == 3

QueryOther ==
    <<"S","E","L","E","C","T"," ","b"," ","F","R","O","M"," ","u">>

\* The query texts of the drawn histories, the empty text among them.
MergePool == {QueryTwoTables, QueryRepeated, QueryOther, <<>>}

RECURSIVE LoggedQueries(_)
\* The table after log_sql_response logged the texts, in this order.
LoggedQueries(texts) ==
    IF texts = <<>> THEN <<>>
    ELSE log_event(LoggedQueries(SubSeq(texts, 1, Len(texts) - 1)), 0,
                   "sql_response", MetadataWith(PyStr(texts[Len(texts)])))

InitMerge ==
    /\ ExtractIdle
    /\ \E texts \in UNION {[1..n -> MergePool] : n \in 0..MaxRows} :
          user_events = LoggedQueries(texts)
    /\ now = 0
    /\ days = 0
    /\ results = <<>>
    /\ analytics = <<>>
    /\ snapshot = [user_events |-> <<>>, now |-> 0, faults |-> {}, caught |-> FALSE]
    /\ calls = <<>>
    /\ AppIdle

NextMerge == get_sql_usage_analytics(0, {}) /\ UNCHANGED calls

SpecMerge == InitMerge /\ [][NextMerge]_vars

-----------------------------------------------------------------------------
(* The repeated-call runs: a caller calls the extractor and the aggregator  *)
(* several times in a row, in any order, over a table drawn at the start.   *)

\* Most calls of a run.
MaxCalls == 3

\* The arguments of the extractor calls.
RepeatInputs == {PyStr(TextSelectAB), PyStr(TextTwoParts), PyNone}

InitRepeat ==
    /\ ExtractIdle
    /\ \E texts \in UNION {[1..n -> QueryPool] : n \in 0..MaxEvents} :
          user_events = LoggedQueries(texts)
    /\ now = 0
    /\ days = 0
    /\ results = <<>>
    /\ analytics = <<>>
    /\ snapshot = [user_events |-> <<>>, now |-> 0, faults |-> {}, caught |-> FALSE]
    /\ calls = <<>>
    /\ AppIdle

\* One more call of parse_sql_tables_and_columns(v).
ExtractAgain(v) ==
    /\ Len(calls) < MaxCalls
    /\ sql_query' = v
    /\ parsed' = <<parse_sql_tables_and_columns(v)>>
    /\ calls' = Append(calls, [op |-> "parse_sql_tables_and_columns",
                               input |-> v, output |-> parsed'[1]])
    /\ UNCHANGED query
    /\ UNCHANGED usageVars
    /\ UNCHANGED appVars

\* One more call of get_sql_usage_analytics(d).
UsageAgain(d) ==
    /\ Len(calls) < MaxCalls
    /\ get_sql_usage_analytics(d, {})
    /\ calls' = Append(calls, [op |-> "get_sql_usage_analytics",
                               input |-> d, output |-> analytics'[1]])

NextRepeat ==
    \/ \E v \in RepeatInputs : ExtractAgain(v)
    \/ \E d \in DaysChoices : UsageAgain(d)

SpecRepeat == InitRepeat /\ [][NextRepeat]_vars

-----------------------------------------------------------------------------
(* The outage runs: get_sql_usage_analytics called several times over a     *)
(* table drawn at the start, the database failing in some of the calls and  *)
(* the extractor raising in others.                                         *)

\* The number of calls of an outage run.
MaxOutage == 2

\* Where the database fails in a call: get_oauth_token raises ValueError
\* (line 73), psycopg2.connect raises (line 75), cur.execute raises (line
\* 586), conn.commit raises after the return of line 633 (line 84).
DbFailures == {"token", "connect", "execute", "commit"}

\* The outcome of the with-block of lines 578-637 when the database fails:
\* an exception in every case; the rows were counted before a failing
\* commit, and the counters are lost with the return value.
OutageOutcome(rows, failure) ==
    IF failure = "commit"
    THEN [CountRows(rows, 1, {}, EmptyCounters) EXCEPT !.raised = TRUE]
    ELSE [raised |-> TRUE, counters |-> EmptyCounters]

\* get_sql_usage_analytics(d), the database working and the extractor
\* raising at the rows in faults.
UsageCall(d, faults) ==
    /\ Len(calls) < MaxOutage
    /\ get_sql_usage_analytics(d, faults)
    /\ calls' = Append(calls, [op |-> "get_sql_usage_analytics", input |-> d,
                               failure |-> "none", faults |-> faults,
                               output |-> analytics'[1]])

\* get_sql_usage_analytics(d), the database failing at failure: the
\* exception reaches lines 639-644.
UsageOutage(d, failure) ==
    LET rows == IF failure = "commit" THEN FetchAll(user_events, now, d)
                ELSE <<>>
        outcome == OutageOutcome(rows, failure)
    IN /\ Len(calls) < MaxOutage
       /\ days' = d
       /\ results' = rows
       /\ analytics' = <<ResultOf(outcome)>>
       /\ snapshot' = [user_events |-> user_events, now |-> now,
                       faults |-> {}, caught |-> outcome.raised]
       /\ calls' = Append(calls, [op |-> "get_sql_usage_analytics", input |-> d,
                                  failure |-> failure, faults |-> {},
                                  output |-> analytics'[1]])
       /\ UNCHANGED <<user_events, now>>
       /\ UNCHANGED extractVars
       /\ UNCHANGED appVars

NextOutage ==
    \/ \E d \in DaysChoices, faults \in SUBSET (1..MaxEvents) : UsageCall(d, faults)
    \/ \E d \in DaysChoices, failure \in DbFailures : UsageOutage(d, failure)

SpecOutage == InitRepeat /\ [][NextOutage]_vars

-----------------------------------------------------------------------------
(* The feedback runs: log_feedback and save_comment, src/event_logger.py    *)
(* lines 244-396, called one after the other on an empty table. A feedback  *)
(* row of user_events holds the columns these two functions read and write. *)

\* The number of calls of a feedback run.
MaxFeedback == 4

\* The (user_id, conversation_id, message_id) of the calls.
Triples == {<<"u1", "c1", "m1">>, <<"u1", "c1", "m2">>}

FeedbackTypes == {"positive", "negative"}

\* The comment texts of the calls; a NULL comment is PyNone.
Comments == {PyStr(<<"c">>)}

\* The row matches user_id, conversation_id, message_id and event_type =
\* 'feedback' (the WHERE clauses of lines 265-268, 282-285, 299-302, 370-373).
IsFeedbackOf(row, triple) ==
    /\ row.event_type = "feedback"
    /\ row.user_id = triple[1]
    /\ row.conversation_id = triple[2]
    /\ row.message_id = triple[3]

\* The feedback rows of a triple, in insertion order.
FeedbackOf(events, triple) ==
    SelectSeq(events, LAMBDA row : IsFeedbackOf(row, triple))

\* SelectExisting that finds no row, whatever the table holds.
SelectExisting_finding_nothing(events, triple) == <<>>

\* Lines 262-271: the rows the existence check selects; existing is truthy
\* when there is one.
SelectExisting(events, triple) ==
    SelectSeq(events, LAMBDA row : IsFeedbackOf(row, triple))

\* UpdateFeedback with the UPDATE of lines 295-309 on both branches.
UpdateFeedback_keeping_comment(events, triple, feedback_type, clock) ==
    [i \in DOMAIN events |->
        IF IsFeedbackOf(events[i], triple)
        THEN [events[i] EXCEPT !.feedback_type = feedback_type,
                               !.timestamp = clock]
        ELSE events[i]]

\* Lines 273-310: the UPDATE of every feedback row of the triple; comment =
\* NULL is set for 'positive' only.
UpdateFeedback(events, triple, feedback_type, clock) ==
    [i \in DOMAIN events |->
        IF IsFeedbackOf(events[i], triple)
        THEN IF feedback_type = "positive"
             THEN [events[i] EXCEPT !.feedback_type = feedback_type,
                                    !.timestamp = clock,
                                    !.comment = PyNone]
             ELSE [events[i] EXCEPT !.feedback_type = feedback_type,
                                    !.timestamp = clock]
        ELSE events[i]]

\* Lines 313-329: the INSERT of a feedback row; the columns it does not
\* name, comment and metadata among them, are NULL.
InsertFeedback(events, triple, feedback_type, clock) ==
    Append(events,
           [event_type |-> "feedback", metadata |-> NoMetadata,
            timestamp |-> clock, event_id |-> Len(events) + 1,
            user_id |-> triple[1], conversation_id |-> triple[2],
            message_id |-> triple[3], feedback_type |-> feedback_type,
            comment |-> PyNone])

\* The table after the statements of lines 260-330.
UpsertFeedback(events, triple, feedback_type, clock) ==
    IF SelectExisting(events, triple) # <<>>
    THEN UpdateFeedback(events, triple, feedback_type, clock)
    ELSE InsertFeedback(events, triple, feedback_type, clock)

\* log_feedback(user_id, conversation_id, message_id, feedback_type). With
\* ok the transaction commits and the call returns True; without, the
\* connection or a statement raised, the transaction is rolled back and the
\* call returns False (lines 332-338). Time passes during the call.
log_feedback(triple, feedback_type, ok) ==
    /\ Len(calls) < MaxFeedback
    /\ user_events' = IF ok
                      THEN UpsertFeedback(user_events, triple, feedback_type, now)
                      ELSE user_events
    /\ now' = now + 1
    /\ calls' = Append(calls,
                       [op |-> "log_feedback", triple |-> triple,
                        feedback_type |-> feedback_type, comment |-> PyNone,
                        output |-> ok, raised |-> ~ok,
                        before |-> FeedbackOf(user_events, triple),
                        after |-> FeedbackOf(user_events', triple)])
    /\ UNCHANGED <<days, results, analytics, snapshot>>
    /\ UNCHANGED extractVars
    /\ UNCHANGED appVars

\* MostRecentNegative without AND feedback_type = 'negative'.
MostRecentNegative_of_any_type(events, triple) ==
    {i \in DOMAIN events :
        /\ IsFeedbackOf(events[i], triple)
        /\ \A j \in DOMAIN events :
              IsFeedbackOf(events[j], triple)
              => events[j].timestamp <= events[i].timestamp}

\* The rows the subquery of lines 366-377 may return: a negative feedback
\* row of the triple with the latest timestamp (ORDER BY timestamp DESC
\* LIMIT 1 picks any of them when several have it).
MostRecentNegative(events, triple) ==
    {i \in DOMAIN events :
        /\ IsFeedbackOf(events[i], triple)
        /\ events[i].feedback_type = "negative"
        /\ \A j \in DOMAIN events :
              (IsFeedbackOf(events[j], triple) /\ events[j].feedback_type = "negative")
              => events[j].timestamp <= events[i].timestamp}

\* save_comment(user_id, conversation_id, message_id, comment): True when
\* the UPDATE changed a row (cur.rowcount > 0), False when it changed none
\* or an exception was caught.
save_comment(triple, comment, ok) ==
    /\ Len(calls) < MaxFeedback
    /\ \/ /\ ok
          /\ \E i \in MostRecentNegative(user_events, triple) :
                user_events' = [user_events EXCEPT ![i].comment = comment]
       \/ /\ ~ok \/ MostRecentNegative(user_events, triple) = {}
          /\ user_events' = user_events
    /\ now' = now + 1
    /\ calls' = Append(calls,
                       [op |-> "save_comment", triple |-> triple,
                        feedback_type |-> "negative", comment |-> comment,
                        output |-> ok /\ MostRecentNegative(user_events, triple) # {},
                        raised |-> ~ok,
                        before |-> FeedbackOf(user_events, triple),
                        after |-> FeedbackOf(user_events', triple)])
    /\ UNCHANGED <<days, results, analytics, snapshot>>
    /\ UNCHANGED extractVars
    /\ UNCHANGED appVars

InitFeedback ==
    /\ ExtractIdle
    /\ UsageIdle

NextFeedback ==
    \/ \E triple \in Triples, feedback_type \in FeedbackTypes, ok \in BOOLEAN :
          log_feedback(triple, feedback_type, ok)
    \/ \E triple \in Triples, comment \in Comments, ok \in BOOLEAN :
          save_comment(triple, comment, ok)

SpecFeedback == InitFeedback /\ [][NextFeedback]_vars

-----------------------------------------------------------------------------
(* The concurrent runs: two callers of log_feedback, each call in its own   *)
(* transaction (get_db_connection opens a connection per call and commits   *)
(* at the end of the with-block), their statements interleaved. A           *)
(* transaction reads the rows that are committed when its statement runs;   *)
(* the rows it inserts are seen by the others after its commit; the rows it *)
(* updates are locked until its commit.                                     *)

\* The callers.
Callers == {1, 2}

\* The number of calls of a caller.
MaxRounds == 2

\* The triple of the concurrent calls.
SharedTriple == <<"u1", "c1", "m1">>

\* What no statement of log_feedback touches.
raceFrame ==
    <<query, sql_query, parsed, days, results, analytics, snapshot, calls,
      user_favorites, connections, stores>>

\* A caller between two calls.
NotCalling ==
    [pc |-> "idle", round |-> 0, feedback_type |-> "positive",
     existing |-> FALSE, statement |-> "none", rows |-> {}, timestamp |-> 0]

\* The rows another transaction has updated and not committed yet.
LockedBy(others) ==
    UNION {others[q].rows : q \in {r \in DOMAIN others : others[r].pc = "commit"}}

\* The feedback rows of the triple, by event_id.
EventIdsOf(events, triple) ==
    {events[i].event_id : i \in {j \in DOMAIN events : IsFeedbackOf(events[j], triple)}}

\* The table after the commit of a transaction: its INSERT appended, or its
\* UPDATE applied to the rows the statement found.
CommitFeedback(events, tx) ==
    IF tx.statement = "insert"
    THEN InsertFeedback(events, SharedTriple, tx.feedback_type, tx.timestamp)
    ELSE [i \in DOMAIN events |->
            IF events[i].event_id \in tx.rows
            THEN UpdateFeedback(<<events[i]>>, SharedTriple, tx.feedback_type,
                                tx.timestamp)[1]
            ELSE events[i]]

\* log_feedback is called: line 259, the connection is opened.
BeginFeedback(p, feedback_type) ==
    /\ transactions[p].pc = "idle"
    /\ transactions[p].round < MaxRounds
    /\ transactions' =
          [transactions EXCEPT ![p] = [NotCalling EXCEPT
              !.pc = "select", !.round = transactions[p].round + 1,
              !.feedback_type = feedback_type]]
    /\ UNCHANGED <<user_events, now>>
    /\ UNCHANGED raceFrame

\* Lines 262-271: the SELECT and existing = cur.fetchone().
SelectFeedback(p) ==
    /\ transactions[p].pc = "select"
    /\ transactions' =
          [transactions EXCEPT
              ![p].pc = "write",
              ![p].existing = SelectExisting(user_events, SharedTriple) # <<>>]
    /\ UNCHANGED <<user_events, now>>
    /\ UNCHANGED raceFrame

\* Lines 273-330: the UPDATE of the committed rows of the triple, which
\* waits while another transaction holds one of them, or the INSERT;
\* datetime.utcnow() is read for the statement.
WriteFeedback(p) ==
    LET found == EventIdsOf(user_events, SharedTriple)
    IN /\ transactions[p].pc = "write"
       /\ transactions[p].existing => found \cap LockedBy(transactions) = {}
       /\ transactions' =
             [transactions EXCEPT
                 ![p].pc = "commit",
                 ![p].statement = IF transactions[p].existing THEN "update"
                                  ELSE "insert",
                 ![p].rows = IF transactions[p].existing THEN found ELSE {},
                 ![p].timestamp = now]
       /\ now' = now + 1
       /\ UNCHANGED user_events
       /\ UNCHANGED raceFrame

\* Line 84, conn.commit(), and return True (line 332).
CommitFeedbackOf(p) ==
    /\ transactions[p].pc = "commit"
    /\ user_events' = CommitFeedback(user_events, transactions[p])
    /\ transactions' = [transactions EXCEPT ![p] =
                           [NotCalling EXCEPT !.round = transactions[p].round]]
    /\ UNCHANGED now
    /\ UNCHANGED raceFrame

InitRace ==
    /\ ExtractIdle
    /\ user_events = <<>>
    /\ now = 0
    /\ days = 0
    /\ results = <<>>
    /\ analytics = <<>>
    /\ snapshot = [user_events |-> <<>>, now |-> 0, faults |-> {}, caught |-> FALSE]
    /\ calls = <<>>
    /\ user_favorites = [rows |-> {}, id_seq |-> 0]
    /\ connections = <<>>
    /\ transactions = [p \in Callers |-> NotCalling]
    /\ stores = <<>>

NextRace ==
    \/ \E p \in Callers, feedback_type \in FeedbackTypes :
          BeginFeedback(p, feedback_type)
    \/ \E p \in Callers : SelectFeedback(p)
    \/ \E p \in Callers : WriteFeedback(p)
    \/ \E p \in Callers : CommitFeedbackOf(p)

SpecRace == InitRace /\ [][NextRace]_vars

-----------------------------------------------------------------------------
(* The favorites runs: save_favorite and delete_user_favorite,              *)
(* src/event_logger.py lines 523-564 and 686-711, called one after the      *)
(* other. A row of user_favorites is its id and its user_id; the question   *)
(* and the query of a favorite play no part in the deletion.                *)

\* The number of calls of a favorites run.
MaxFavorite == 3

UserIds == {"u1", "u2"}

\* The favorite_id arguments: ids the sequence gives in a run, and one it
\* does not.
FavoriteIds == 1..MaxFavorite

\* Lines 544-557: the INSERT; the id column takes the next value of its
\* sequence.
InsertFavorite(favorites, user_id) ==
    [rows |-> favorites.rows \cup
                 {[id |-> favorites.id_seq + 1, user_id |-> user_id]},
     id_seq |-> favorites.id_seq + 1]

\* The rows of DELETE ... WHERE id = %s AND user_id = %s (lines 700-703).
MatchingFavorites(favorites, favorite_id, user_id) ==
    {row \in favorites.rows : row.id = favorite_id /\ row.user_id = user_id}

\* Lines 700-703: the DELETE.
DeleteFavorite(favorites, favorite_id, user_id) ==
    [favorites EXCEPT
        !.rows = @ \ MatchingFavorites(favorites, favorite_id, user_id)]

\* save_favorite(user_id, ...): True after the INSERT was committed, False
\* when an exception was caught (lines 558-564).
save_favorite(user_id, ok) ==
    /\ Len(calls) < MaxFavorite
    /\ user_favorites' = IF ok THEN InsertFavorite(user_favorites, user_id)
                         ELSE user_favorites
    /\ calls' = Append(calls,
                       [op |-> "save_favorite", favorite_id |-> 0,
                        user_id |-> user_id, output |-> ok, raised |-> ~ok,
                        before |-> user_favorites.rows,
                        after |-> user_favorites'.rows])
    /\ UNCHANGED usageVars
    /\ UNCHANGED extractVars
    /\ UNCHANGED connVars
    /\ UNCHANGED <<transactions, stores>>

\* delete_user_favorite(favorite_id, user_id): return True of line 705
\* after the with-block, whatever the DELETE found; return False of lines
\* 706-711 when an exception was caught.
delete_user_favorite(favorite_id, user_id, ok) ==
    /\ Len(calls) < MaxFavorite
    /\ user_favorites' = IF ok
                         THEN DeleteFavorite(user_favorites, favorite_id, user_id)
                         ELSE user_favorites
    /\ calls' = Append(calls,
                       [op |-> "delete_user_favorite",
                        favorite_id |-> favorite_id,
                        user_id |-> user_id, output |-> ok, raised |-> ~ok,
                        before |-> user_favorites.rows,
                        after |-> user_favorites'.rows])
    /\ UNCHANGED usageVars
    /\ UNCHANGED extractVars
    /\ UNCHANGED connVars
    /\ UNCHANGED <<transactions, stores>>

InitFavorites ==
    /\ ExtractIdle
    /\ UsageIdle

NextFavorites ==
    \/ \E user_id \in UserIds, ok \in BOOLEAN : save_favorite(user_id, ok)
    \/ \E favorite_id \in FavoriteIds, user_id \in UserIds, ok \in BOOLEAN :
          delete_user_favorite(favorite_id, user_id, ok)

SpecFavorites == InitFavorites /\ [][NextFavorites]_vars

-----------------------------------------------------------------------------
(* The connection runs: get_db_connection, src/event_logger.py lines 67-92, *)
(* a generator under @contextmanager, entered by one with-statement after   *)
(* the other. Each step is one statement of the generator or the body of    *)
(* the with-statement; the calls that may raise do or do not.               *)

\* The number of with-statements of a connection run.
MaxWith == 3

\* Line 70, conn = None, and the try of line 71 entered.
Entered ==
    [pc |-> "connect", opened |-> FALSE, body |-> "none", commit |-> 0,
     rollback |-> 0, close |-> 0, raised |-> FALSE]

\* Lines 73-82: get_oauth_token and psycopg2.connect; conn stays None when
\* one of them raises, and the except clause is next.
Connected(c, ok) ==
    IF ok THEN [c EXCEPT !.opened = TRUE, !.pc = "yield"]
    ELSE [c EXCEPT !.pc = "except"]

\* Line 83, yield conn: the body of the with-statement runs; an exception
\* of the body (an instance of Exception, as the database and the code of
\* the bodies raise) is raised at the yield.
Yielded(c, ok) ==
    IF ok THEN [c EXCEPT !.body = "finished", !.pc = "commit"]
    ELSE [c EXCEPT !.body = "raised", !.pc = "except"]

\* Line 84, conn.commit(), which may raise.
Committed(c, ok) ==
    [c EXCEPT !.commit = @ + 1, !.pc = IF ok THEN "finally" ELSE "except"]

\* Lines 85-89: if conn: conn.rollback(), then raise; when the rollback
\* raises, its exception is the one that goes on.
Excepted(c) ==
    [c EXCEPT !.rollback = IF c.opened THEN @ + 1 ELSE @,
              !.raised = TRUE,
              !.pc = "finally"]

\* Finalized closing the connection only on the path without exception.
Finalized_closing_after_commit(c) ==
    [c EXCEPT !.close = IF c.opened /\ ~c.raised THEN @ + 1 ELSE @,
              !.pc = "done"]

\* Lines 90-92: if conn: conn.close().
Finalized(c) ==
    [c EXCEPT !.close = IF c.opened THEN @ + 1 ELSE @, !.pc = "done"]

\* The with-statement that is running, 0 when none is.
Running ==
    IF connections # <<>> /\ connections[Len(connections)].pc # "done"
    THEN Len(connections) ELSE 0

\* with get_db_connection() as conn: the generator is called.
Enter ==
    /\ Running = 0
    /\ Len(connections) < MaxWith
    /\ connections' = Append(connections, Entered)
    /\ UNCHANGED <<usageVars, extractVars, calls, user_favorites, transactions, stores>>

\* One statement of the generator, or the body of the with-statement.
Step(ok) ==
    /\ Running # 0
    /\ LET c == connections[Running]
       IN connections' =
            [connections EXCEPT ![Running] =
                CASE c.pc = "connect" -> Connected(c, ok)
                  [] c.pc = "yield" -> Yielded(c, ok)
                  [] c.pc = "commit" -> Committed(c, ok)
                  [] c.pc = "except" -> Excepted(c)
                  [] c.pc = "finally" -> Finalized(c)]
    /\ UNCHANGED <<usageVars, extractVars, calls, user_favorites, transactions, stores>>

InitConnection ==
    /\ ExtractIdle
    /\ UsageIdle

NextConnection ==
    \/ Enter
    \/ \E ok \in BOOLEAN : Step(ok)

SpecConnection == InitConnection /\ [][NextConnection]_vars

-----------------------------------------------------------------------------
(* The chat page of src/app.py: the callbacks handle_all_inputs,            *)
(* get_model_response and show_chat_history over the stores of the layout.  *)
(* The server keeps nothing between two callbacks: each one is handed the   *)
(* stores by the browser and answers with their new contents.               *)

\* The number of callbacks of a run.
MaxCallbacks == 4

\* The number of conversations of the history the page is taken up with.
MaxChats == 2

\* None as the value of current_session; its other values are the 0-based
\* positions of chat_history, whose entry k is chat_history[k + 1] here.
NoSession == -1

\* None as a conversation id.
NoConversation == "None"

ConversationIds == {"c1"}

\* user_input[:50]
TitleLimit == 50

TextTopSales == <<"t","o","p"," ","5">>

TextLoveData == <<"I"," ","l","o","v","e"," "," ","D","A","T","A","!">>

\* "i love data"
ILoveData == <<"i"," ","l","o","v","e"," ","d","a","t","a">>

\* "New conversation"
NewConversation ==
    <<"N","e","w"," ","c","o","n","v","e","r","s","a","t","i","o","n">>

\* What the user sends: nothing, a question, the easter egg.
UserInputs == {<<>>, TextTopSales, TextLoveData}

\* c.isalnum()
IsAlnum(c) ==
    c \in Range(LowerLetters) \cup Range(UpperLetters) \cup Digits \cup {KelvinSign}

\* c.isalnum() or c.isspace()
KeptChar(c) == IsAlnum(c) \/ IsSpace(c)

RECURSIVE WordsFrom(_, _, _)
\* str.split() without argument, from position i with the word cur begun.
WordsFrom(s, i, cur) ==
    LET word == IF cur = <<>> THEN <<>> ELSE <<cur>>
    IN IF i > Len(s) THEN word
       ELSE IF IsSpace(s[i]) THEN word \o WordsFrom(s, i + 1, <<>>)
       ELSE WordsFrom(s, i + 1, Append(cur, s[i]))

\* normalized = ''.join(c for c in user_input.lower() if ...);
\* normalized = ' '.join(normalized.split())
Normalized(user_input) ==
    JoinWith(WordsFrom(SelectSeq(Lower(user_input), KeptChar), 1, <<>>), <<" ">>)

\* user_input[:50] + '...' if len(user_input) > 50 else user_input
Title(user_input) ==
    IF Len(user_input) > TitleLimit
    THEN SubSeq(user_input, 1, TitleLimit) \o <<".", ".", ".">>
    ELSE user_input

\* The html.Div of a message: the classes of its className, the class of
\* the element it wraps and its text.
UserMessage(user_input) ==
    [className |-> <<"user-message", "message">>, inner |-> "message-text",
     text |-> user_input]

ThinkingIndicator ==
    [className |-> <<"bot-message", "message">>, inner |-> "thinking-indicator",
     text |-> <<>>]

\* bot_response: content holds what genie_query answered, a text or a table.
BotResponse(content) ==
    [className |-> <<"bot-message", "message">>, inner |-> "message-content",
     text |-> content]

ErrorResponse ==
    [className |-> <<"bot-message", "message">>, inner |-> "message-content",
     text |-> <<"error">>]

MarioMessage ==
    [className |-> <<"bot-message", "message">>, inner |-> "mario-game-container",
     text |-> <<"mario">>]

\* 'thinking-indicator' in str(last_message['props'].get('className', '')):
\* the className of the message itself is read, not that of what it wraps.
IsThinking(message) == "thinking-indicator" \in Range(message.className)

\* current_messages[:-1]
AllButLast(messages) == SubSeq(messages, 1, Len(messages) - 1)

\* The entry chat_history.insert(0, ...) creates.
NewEntry(user_input, messages) ==
    [conversation_id |-> NoConversation, title |-> Title(user_input),
     messages |-> messages, message_count |-> 1, dataframes |-> 0]

\* The entries of the history the page is taken up with.
StoredEntries ==
    {[conversation_id |-> "c1", title |-> TextTopSales,
      messages |-> <<UserMessage(TextTopSales), BotResponse(<<"text">>)>>,
      message_count |-> 1, dataframes |-> 0],
     [conversation_id |-> NoConversation, title |-> NewConversation,
      messages |-> <<>>, message_count |-> 1, dataframes |-> 0]}

Histories ==
    UNION {[1..n -> StoredEntries] : n \in 0..MaxChats}

\* What get_conversation_messages answers: it raised, or rows of role and
\* content.
DbMessages ==
    {[raised |-> TRUE, rows |-> <<>>],
     [raised |-> FALSE, rows |-> <<>>],
     [raised |-> FALSE,
      rows |-> <<[role |-> "user", content |-> TextTopSales],
                 [role |-> "system", content |-> <<"prompt">>],
                 [role |-> "assistant", content |-> <<"text">>]>>]}

RECURSIVE FormattedMessages(_)
\* for msg in db_messages: the user and the assistant rows as messages.
FormattedMessages(db_messages) ==
    IF db_messages = <<>> THEN <<>>
    ELSE LET msg == Head(db_messages)
             rest == FormattedMessages(Tail(db_messages))
         IN IF msg.role = "user" THEN <<UserMessage(msg.content)>> \o rest
            ELSE IF msg.role = "assistant" THEN <<BotResponse(msg.content)>> \o rest
            ELSE rest

\* The return value of handle_all_inputs as the new contents of the stores.
HandleAllInputs(st, user_input) ==
    IF user_input = <<>> THEN st
    ELSE
      LET updated_messages ==
              st.chat_messages \o <<UserMessage(user_input), ThinkingIndicator>>
          session_data ==
              IF st.session_data.current_session = NoSession
              THEN [current_session |-> Len(st.chat_history)]
              ELSE st.session_data
          current_session == session_data.current_session
          chat_history ==
              IF current_session < Len(st.chat_history)
              THEN [st.chat_history EXCEPT ![current_session + 1] =
                       [@ EXCEPT !.messages = updated_messages,
                                 !.title = IF @ = <<>> \/ @ = NewConversation
                                           THEN Title(user_input) ELSE @]]
              ELSE <<NewEntry(user_input, updated_messages)>> \o st.chat_history
      IN [st EXCEPT !.chat_messages = updated_messages,
                    !.welcome_class = "welcome-container hidden",
                    !.chat_trigger = [trigger |-> TRUE, message |-> user_input],
                    !.query_running = TRUE,
                    !.chat_history = chat_history,
                    !.session_data = session_data]

\* chat_history[0]["messages"] = updated_messages, when there is an entry.
StoreInFirst(chat_history, updated_messages) ==
    IF chat_history # <<>>
    THEN [chat_history EXCEPT ![1].messages = updated_messages]
    ELSE chat_history

\* chat_history[0].setdefault('dataframes', {})[table_id] = ..., for a table.
StoreDataframe(chat_history, response) ==
    IF response = "table" /\ chat_history # <<>>
    THEN [chat_history EXCEPT ![1].dataframes = @ + 1]
    ELSE chat_history

\* The return value of get_model_response as the new contents of the
\* stores. response is what genie_query did: it answered a text or a table
\* with new_conversation_id, or it raised.
GetModelResponse(st, response, new_conversation_id) ==
    LET user_input == st.chat_trigger.message
        done == [st EXCEPT !.chat_trigger = [trigger |-> FALSE, message |-> <<>>],
                           !.query_running = FALSE]
    IN IF ~st.chat_trigger.trigger \/ user_input = <<>> THEN st
       ELSE IF Normalized(user_input) = ILoveData
       THEN LET current_messages ==
                    IF st.chat_messages # <<>>
                       /\ IsThinking(st.chat_messages[Len(st.chat_messages)])
                    THEN AllButLast(st.chat_messages)
                    ELSE st.chat_messages
            IN [done EXCEPT !.chat_messages = current_messages \o <<MarioMessage>>]
       ELSE IF response = "raised"
       THEN LET updated_messages == AllButLast(st.chat_messages) \o <<ErrorResponse>>
            IN [done EXCEPT !.chat_messages = updated_messages,
                            !.chat_history = StoreInFirst(@, updated_messages)]
       ELSE LET updated_messages ==
                    AllButLast(st.chat_messages) \o <<BotResponse(<<response>>)>>
            IN [done EXCEPT
                   !.chat_messages = updated_messages,
                   !.chat_history =
                       StoreInFirst(StoreDataframe(@, response), updated_messages),
                   !.conversation_store =
                       IF new_conversation_id # NoConversation
                          /\ new_conversation_id # @.conversation_id
                       THEN [conversation_id |-> new_conversation_id]
                       ELSE @]

\* The return value of show_chat_history as the new contents of the stores,
\* for a click on the chat item clicked_index.
ShowChatHistory(st, clicked_index, db_messages) ==
    IF st.chat_history = <<>> \/ clicked_index >= Len(st.chat_history) THEN st
    ELSE
      LET conversation_id == st.chat_history[clicked_index + 1].conversation_id
          formatted_messages ==
              IF conversation_id # NoConversation /\ ~db_messages.raised
              THEN FormattedMessages(db_messages.rows)
              ELSE <<>>
      IN [st EXCEPT !.chat_messages = formatted_messages,
                    !.welcome_class = IF formatted_messages # <<>>
                                      THEN "welcome-container hidden"
                                      ELSE "welcome-container visible",
                    !.conversation_store = [conversation_id |-> conversation_id],
                    !.session_data = [current_session |-> clicked_index]]

\* What no callback of the chat page touches.
chatFrame ==
    <<query, sql_query, parsed, user_events, now, days, results, analytics,
      snapshot, user_favorites, connections, transactions>>

\* The callbacks: the outputs of each replace the stores, and the history
\* keeps the stores it was handed and those it answered.
handle_all_inputs(user_input) ==
    /\ Len(calls) < MaxCallbacks
    /\ stores' = HandleAllInputs(stores, user_input)
    /\ calls' = Append(calls, [op |-> "handle_all_inputs",
                                before |-> stores, after |-> stores'])
    /\ UNCHANGED chatFrame

get_model_response(response, new_conversation_id) ==
    /\ Len(calls) < MaxCallbacks
    /\ stores' = GetModelResponse(stores, response, new_conversation_id)
    /\ calls' = Append(calls, [op |-> "get_model_response",
                                before |-> stores, after |-> stores'])
    /\ UNCHANGED chatFrame

show_chat_history(clicked_index, db_messages) ==
    /\ Len(calls) < MaxCallbacks
    /\ stores' = ShowChatHistory(stores, clicked_index, db_messages)
    /\ calls' = Append(calls, [op |-> "show_chat_history",
                                before |-> stores, after |-> stores'])
    /\ UNCHANGED chatFrame

\* The stores of the layout, with the history the browser holds: none, or
\* conversations the first of which is selected and, having no stored
\* message of its own to show, shown as it is in the history.
PageOf(chat_history) ==
    [chat_history |-> chat_history,
     session_data |->
         [current_session |-> IF chat_history = <<>> THEN NoSession ELSE 0],
     chat_messages |->
         IF chat_history = <<>> THEN <<>> ELSE chat_history[1].messages,
     chat_trigger |-> [trigger |-> FALSE, message |-> <<>>],
     conversation_store |->
         [conversation_id |-> IF chat_history = <<>> THEN NoConversation
                              ELSE chat_history[1].conversation_id],
     query_running |-> FALSE,
     welcome_class |-> "welcome-container visible"]

InitChat ==
    /\ ExtractIdle
    /\ user_events = <<>>
    /\ now = 0
    /\ days = 0
    /\ results = <<>>
    /\ analytics = <<>>
    /\ snapshot = [user_events |-> <<>>, now |-> 0, faults |-> {}, caught |-> FALSE]
    /\ calls = <<>>
    /\ user_favorites = [rows |-> {}, id_seq |-> 0]
    /\ connections = <<>>
    /\ transactions = <<>>
    /\ \E chat_history \in Histories : stores = PageOf(chat_history)

NextChat ==
    \/ \E user_input \in UserInputs : handle_all_inputs(user_input)
    \/ \E response \in {"text", "table", "raised"},
          new_conversation_id \in ConversationIds \cup {NoConversation} :
          get_model_response(response, new_conversation_id)
    \/ \E clicked_index \in 0..MaxChats, db_messages \in DbMessages :
          show_chat_history(clicked_index, db_messages)

SpecChat == InitChat /\ [][NextChat]_vars

-----------------------------------------------------------------------------
(* Claims about the aggregation, checked under Spec (C1 under SpecFault,    *)
(* C17 under SpecMerge).                                                    *)

UsageCalled == analytics # <<>>

Usage == analytics[1]

\* The fetched records that reach the extractor.
Aggregated == {i \in DOMAIN results : Truthy(results[i])}

\* The extracted table set and column set of fetched record i.
Extraction(i) ==
    LET p == ParseFetched(results[i])
    IN [record |-> i, tables |-> Elements(p.tables), columns |-> Elements(p.columns)]

\* The extractions of the aggregated records.
Extracted == {Extraction(i) : i \in Aggregated}

RECURSIVE SumCounts(_)
SumCounts(entries) ==
    IF entries = <<>> THEN 0 ELSE Head(entries).count + SumCounts(Tail(entries))

RECURSIVE SumOfColumns(_)
\* The sum of the sizes of the column sets of the extractions in set.
SumOfColumns(set) ==
    IF set = {} THEN 0
    ELSE LET q == CHOOSE x \in set : TRUE
         IN Cardinality(q.columns) + SumOfColumns(set \ {q})

\* The count the returned lists give a table, a column, a pair (0 when the
\* list has no entry for it).
TableCount(T) ==
    SumCounts(SelectSeq(Usage.tables, LAMBDA e : e.table_name = T))

ColumnCount(C) ==
    SumCounts(SelectSeq(Usage.columns, LAMBDA e : e.column_name = C))

PairCount(T, C) ==
    SumCounts(SelectSeq(Usage.table_columns,
                        LAMBDA e : e.table_name = T /\ e.column_name = C))

PairCountOfTable(T) ==
    SumCounts(SelectSeq(Usage.table_columns, LAMBDA e : e.table_name = T))

\* Every table and column name that is extracted or returned.
AllTables(queries) ==
    UNION {q.tables : q \in queries}
    \cup {e.table_name : e \in Elements(Usage.tables)}
    \cup {e.table_name : e \in Elements(Usage.table_columns)}

AllColumns(queries) ==
    UNION {q.columns : q \in queries}
    \cup {e.column_name : e \in Elements(Usage.columns)}
    \cup {e.column_name : e \in Elements(Usage.table_columns)}

\* The list without its i-th element.
RemoveAt(list, i) == SubSeq(list, 1, i - 1) \o SubSeq(list, i + 1, Len(list))

C5_CountIsQueriesHoldingName ==
    UsageCalled
    => LET queries == Extracted
       IN /\ \A T \in AllTables(queries) :
                TableCount(T) = Cardinality({q \in queries : T \in q.tables})
          /\ \A C \in AllColumns(queries) :
                ColumnCount(C) = Cardinality({q \in queries : C \in q.columns})

\* Two queries were aggregated, one of them naming t and a twice, and t and
\* a each count 2.
C5_Witness ==
    /\ UsageCalled
    /\ results = <<PyStr(QueryRepeated), PyStr(QueryTwoTables)>>
    /\ TableCount(<<"t">>) = 2
    /\ ColumnCount(<<"a">>) = 2
    /\ TableCount(<<"u">>) = 1

\* C6: the count of a pair (T, C) is the number of aggregated queries whose
\* table set holds T and whose column set holds C; so the counts of the
\* pairs of a table T add up to the sum, over the queries whose table set
\* holds T, of the size of the query's column set.
C6_PairCountIsCartesianProduct ==
    UsageCalled
    => LET queries == Extracted
       IN /\ \A T \in AllTables(queries) : \A C \in AllColumns(queries) :
                PairCount(T, C) =
                   Cardinality({q \in queries : T \in q.tables /\ C \in q.columns})
          /\ \A T \in AllTables(queries) :
                PairCountOfTable(T) = SumOfColumns({q \in queries : T \in q.tables})

\* Two queries were aggregated: (t, a) is in both, (u, b) in one, and the
\* pairs of t add up to 2 + 1 columns.
C6_Witness ==
    /\ UsageCalled
    /\ results = <<PyStr(QueryTwoTables), PyStr(QueryRepeated)>>
    /\ PairCount(<<"t">>, <<"a">>) = 2
    /\ PairCount(<<"u">>, <<"b">>) = 1
    /\ PairCountOfTable(<<"t">>) = 3

\* The recorded queries: the sql_response rows that hold a query text.
IsRecordedQuery(row) ==
    /\ row.event_type = "sql_response"
    /\ row.metadata.has
    /\ row.metadata.key
    /\ row.metadata.sql_query.type = "str"

\* The rows of the window of the last call: all of them for days = 0, else
\* those no older than days.
InWindow(row) == days = 0 \/ snapshot.now - row.timestamp <= days

TextsOf(rows) == [i \in DOMAIN rows |-> rows[i].metadata.sql_query]

\* C7: with days = 0 every recorded query, however old, is aggregated; with
\* days = N > 0 only those with timestamp >= now - N days are, the counts
\* being those of these records alone.
C7_WindowOfDays ==
    UsageCalled
    => LET recorded == SelectSeq(snapshot.user_events, IsRecordedQuery)
           expected == TextsOf(SelectSeq(recorded, InWindow))
       IN /\ results = expected
          /\ Usage = UsageOf(expected, {})

\* The call had days = 7 at day 8: the query logged at day 0 (8 days old) is
\* left out, the query logged at day 1 (7 days old) is counted.
C7_Witness ==
    /\ UsageCalled
    /\ days = 7
    /\ snapshot.now = 8
    /\ Len(snapshot.user_events) = 2
    /\ IsRecordedQuery(snapshot.user_events[1])
    /\ snapshot.user_events[1].timestamp = 0
    /\ snapshot.user_events[2].timestamp = 1
    /\ results = <<PyStr(QueryTwoTables)>>
    /\ Usage.tables # <<>>

\* A sql_response row whose query text is null, missing or empty.
IsBlankRecord(row) ==
    /\ row.event_type = "sql_response"
    /\ ~(/\ row.metadata.has
         /\ row.metadata.key
         /\ row.metadata.sql_query.type = "str"
         /\ row.metadata.sql_query.text # <<>>)

IsNotBlankRecord(row) == ~IsBlankRecord(row)

\* C8: a record whose query text is null, missing or empty is skipped
\* without an exception, and the counts are those the call gives when these
\* records are absent.
C8_BlankRecordsSkipped ==
    UsageCalled
    => /\ ~snapshot.caught
       /\ Usage = UsageOf(FetchAll(SelectSeq(snapshot.user_events, IsNotBlankRecord),
                                   snapshot.now, days), {})

\* A record with an empty text was fetched before a query, and the query
\* was counted.
C8_Witness ==
    /\ UsageCalled
    /\ Len(snapshot.user_events) = 2
    /\ IsBlankRecord(snapshot.user_events[1])
    /\ results = <<PyStr(<<>>), PyStr(QueryTwoTables)>>
    /\ TableCount(<<"u">>) = 1

-----------------------------------------------------------------------------
(* Claims about the extractor, checked under SpecExtract.                   *)

\* The canonical name of a clause's reference: its parts joined by single
\* dots, in lowercase.
RefName(c) == Lower(JoinWith(c.parts, <<".">>))

\* A generated query with one clause.
OneClauseRun ==
    Called /\ query.literal = 0 /\ Len(query.clauses) = 1

\* The shape q with every alias removed / with no part back-quoted.
WithoutAliases(q) ==
    [q EXCEPT !.clauses =
        [i \in DOMAIN q.clauses |->
            [q.clauses[i] EXCEPT !.alias = [as |-> FALSE, name |-> <<>>]]]]

Unquoted(q) ==
    [q EXCEPT !.clauses =
        [i \in DOMAIN q.clauses |-> [q.clauses[i] EXCEPT !.quote = "none"]]]

TablesOfShape(q) == parse_sql_tables_and_columns(PyStr(Render(q))).tables

\* C2: an unquoted table reference of 1, 2 or 3 dot-separated parts after
\* FROM or JOIN yields exactly one table name, the parts joined by single
\* dots, in lowercase: FROM Sales.Orders gives sales.orders, FROM C.S.T gives
\* c.s.t, FROM T gives t.
C2_UnquotedRefJoinedByDots ==
    /\ (/\ OneClauseRun
        /\ query.select = <<>>
        /\ query.clauses[1].quote = "none"
        /\ Len(query.clauses[1].parts) \in 1..3)
       => Result.tables = <<RefName(query.clauses[1])>>
    /\ (Called /\ sql_query = PyStr(TextTwoParts))
       => Result.tables = << <<"s","a","l","e","s",".","o","r","d","e","r","s">> >>
    /\ (Called /\ sql_query = PyStr(TextThreeParts))
       => Result.tables = << <<"c",".","s",".","t">> >>
    /\ (Called /\ sql_query = PyStr(TextOnePart))
       => Result.tables = << <<"t">> >>

\* C3: back-quoting every part of a table reference does not change the
\* extracted name, and SELECT x FROM `cat`.`sch`.`tbl` gives the tables
\* {cat.sch.tbl} and the columns {x}.
C3_BackQuotingKeepsName ==
    /\ (OneClauseRun /\ query.clauses[1].quote = "each")
       => Result.tables = TablesOfShape(Unquoted(query))
    /\ (Called /\ sql_query = PyStr(TextQuoted))
       => /\ Elements(Result.tables) =
               { <<"c","a","t",".","s","c","h",".","t","b","l">> }
          /\ Elements(Result.columns) = { <<"x">> }

\* C4: for every text, well-formed or malformed, the call ends and returns a
\* list of tables and a list of columns; it does not raise.
C4_NeverRaisesOnText ==
    (Called /\ sql_query.type = "str")
    => /\ ~Result.raised
       /\ DOMAIN Result.tables = 1..Len(Result.tables)
       /\ DOMAIN Result.columns = 1..Len(Result.columns)

\* A malformed text (no table after the last JOIN, a dangling dot and an
\* unbalanced back quote) went through the extractor.
C4_Witness ==
    /\ Called
    /\ sql_query = PyStr(TextTrailingDot)
    /\ ~Result.raised
    /\ Result.tables # <<>>

\* C9: a table reference followed by an alias, bare or after AS, is matched
\* as it is without the alias, and the alias is not added to the tables;
\* SELECT * FROM orders o JOIN customers c ON o.cid=c.id gives the tables
\* {orders, customers} and no column.
C9_AliasNotInTables ==
    /\ (Called /\ query.literal = 0)
       => /\ \A i \in DOMAIN query.clauses :
                query.clauses[i].alias.name # <<>>
                => ~InList(Lower(query.clauses[i].alias.name), Result.tables)
          /\ Result.tables = TablesOfShape(WithoutAliases(query))
    /\ (Called /\ sql_query = PyStr(TextAliases))
       => /\ Elements(Result.tables) =
               { <<"o","r","d","e","r","s">>,
                 <<"c","u","s","t","o","m","e","r","s">> }
          /\ Result.columns = <<>>

\* C10: the tables of a query with several FROM/JOIN clauses are the union
\* of the referenced tables, and for every input neither the tables nor the
\* columns hold an element twice.
C10_UnionWithoutDuplicates ==
    /\ (/\ Called
        /\ query.literal = 0
        /\ Len(query.clauses) >= 2
        /\ \A i \in DOMAIN query.clauses : Len(query.clauses[i].parts) <= 3)
       => Elements(Result.tables) =
            {RefName(query.clauses[i]) : i \in DOMAIN query.clauses}
    /\ Called => NoDuplicates(Result.tables) /\ NoDuplicates(Result.columns)

\* The half of C10 that holds of the code: no returned list holds an element
\* twice.
NoDuplicateNames ==
    Called => NoDuplicates(Result.tables) /\ NoDuplicates(Result.columns)

\* The fragment is a bare identifier outside the keyword list.
IsBareIdentifier(f) ==
    /\ f # <<>>
    /\ \A i \in DOMAIN f : IsIdent(f[i])
    /\ Lower(f) \notin Elements(SqlKeywords)

\* A generated query SELECT c1, ..., cn FROM t: bare identifiers, one
\* unquoted table of one part after FROM, no alias.
SimpleSelectRun ==
    /\ Called
    /\ query.literal = 0
    /\ query.select # <<>>
    /\ \A i \in DOMAIN query.select : IsBareIdentifier(query.select[i])
    /\ Len(query.clauses) = 1
    /\ Upper(query.clauses[1].kw) = KwFrom
    /\ Len(query.clauses[1].parts) = 1
    /\ query.clauses[1].quote = "none"
    /\ query.clauses[1].alias.name = <<>>

\* C11: SELECT c1, ..., cn FROM t, every ci a bare identifier outside the
\* keyword list, gives the tables {t} and the columns {c1, ..., cn} in
\* lowercase; SELECT a, b FROM t gives {t} and {a, b}.
C11_SimpleSelectGivesTableAndColumns ==
    /\ SimpleSelectRun
       => /\ Elements(Result.tables) = {RefName(query.clauses[1])}
          /\ Elements(Result.columns) =
               {Lower(query.select[i]) : i \in DOMAIN query.select}
    /\ (Called /\ sql_query = PyStr(TextSelectAB))
       => /\ Elements(Result.tables) = { <<"t">> }
          /\ Elements(Result.columns) = { <<"a">>, <<"b">> }

\* C12: a select list that is only * gives no column, and the tables are
\* those of the text without the select list (at least one when a FROM or
\* JOIN clause follows).
C12_StarGivesNoColumn ==
    (Called /\ query.literal = 0 /\ query.select = << <<"*">> >>)
    => /\ Result.columns = <<>>
       /\ Result.tables = TablesOfShape([query EXCEPT !.select = <<>>])
       /\ query.clauses # <<>> => Result.tables # <<>>

\* SELECT * FROM t went through the extractor: no column, the table t.
C12_Witness ==
    /\ Called
    /\ query.literal = 0
    /\ query.select = << <<"*">> >>
    /\ Len(query.clauses) = 1
    /\ query.clauses[1].kw = KwFrom
    /\ Result.columns = <<>>
    /\ Result.tables = << <<"t">> >>

\* The text holds the shape SELECT, white space, anything, white space,
\* FROM (in any case), the two white spaces being different characters.
HasSelectFromShape(s) ==
    LET u == Upper(s)
    IN \E i \in DOMAIN s :
          /\ i + 6 <= Len(s)
          /\ IsSpace(s[i + 6])
          /\ StartsWith(u, i, KwSelect)
          /\ \E j \in (i + 8)..Len(s) :
                /\ IsSpace(s[j - 1])
                /\ StartsWith(u, j, KwFrom)

\* C13: a text without the shape SELECT ... FROM gives no column and does
\* not raise.
C13_NoShapeGivesNoColumn ==
    (Called /\ sql_query.type = "str" /\ ~HasSelectFromShape(sql_query.text))
    => /\ ~Result.raised
       /\ Result.columns = <<>>

\* A DELETE statement went through the extractor: its table is extracted,
\* no column is.
C13_Witness ==
    /\ Called
    /\ sql_query = PyStr(TextDelete)
    /\ ~HasSelectFromShape(sql_query.text)
    /\ ~Result.raised
    /\ Result.columns = <<>>
    /\ Result.tables = << <<"t">> >>

\* C14: for every input, no returned column is one of the words as, from,
\* where, select, distinct, count, sum, avg, max, min, case, when, then,
\* else, end.
C14_NoKeywordColumn ==
    Called => \A c \in Elements(Result.columns) : c \notin Elements(SqlKeywords)

\* SELECT count(x), Distinct a, y went through the extractor: count and
\* distinct are left out, y is a column.
C14_Witness ==
    /\ Called
    /\ query.literal = 0
    /\ Len(query.select) = 3
    /\ Lower(SubSeq(query.select[1], 1, 5)) = <<"c","o","u","n","t">>
    /\ Len(query.clauses) = 1
    /\ query.clauses[1].kw = KwFrom
    /\ Result.columns = << <<"y">> >>

\* No character of the name is an upper-case letter.
IsLowercase(name) ==
    \A i \in DOMAIN name : name[i] \notin Range(UpperLetters) \cup {KelvinSign}

\* C15: for any text s, the extractor returns the same tables and the same
\* columns for s, for s.upper() and for s.lower(), and every returned name
\* is in lowercase.
C15_CaseInsensitive ==
    (Called /\ sql_query.type = "str")
    => /\ parse_sql_tables_and_columns(PyStr(Upper(sql_query.text))) = Result
       /\ parse_sql_tables_and_columns(PyStr(Lower(sql_query.text))) = Result
       /\ \A n \in Elements(Result.tables) \cup Elements(Result.columns) :
             IsLowercase(n)

\* C16: for the empty text and for None the extractor returns no table and
\* no column, and does not raise.
C16_EmptyOrNoneGivesNothing ==
    (Called /\ sql_query \in {PyStr(<<>>), PyNone})
    => Result = Returned(<<>>, <<>>)

\* None went through the extractor.
C16_Witness ==
    /\ Called
    /\ sql_query = PyNone
    /\ ~Result.raised
    /\ Result.tables = <<>>
    /\ Result.columns = <<>>

-----------------------------------------------------------------------------
(* Claims about merging, checked under SpecMerge.                           *)

\* The three counters behind the returned lists, each as its set of
\* (key, count) pairs: two Counters are equal when these sets are.
CountersOf(usage) ==
    [tables |-> {<<e.table_name, e.count>> : e \in Elements(usage.tables)},
     columns |-> {<<e.column_name, e.count>> : e \in Elements(usage.columns)},
     table_columns |->
        {<<(<<e.table_name, e.column_name>>), e.count>> :
            e \in Elements(usage.table_columns)}]

\* counter[key], 0 for a key the counter does not hold.
CountOf(counter, key) ==
    IF \E p \in counter : p[1] = key
    THEN (CHOOSE p \in counter : p[1] = key)[2]
    ELSE 0

\* The key-wise sum of two counters.
Added(a, b) ==
    {<<key, CountOf(a, key) + CountOf(b, key)>> :
        key \in {p[1] : p \in a \cup b}}

AddedCounters(a, b) ==
    [tables |-> Added(a.tables, b.tables),
     columns |-> Added(a.columns, b.columns),
     table_columns |-> Added(a.table_columns, b.table_columns)]

\* C17: the counters of the records A followed by B are the key-wise sum
\* of the counters of A and of B, and every permutation of the records
\* gives the same counters.
C17_AdditiveAndOrderIndependent ==
    UsageCalled
    => /\ \A k \in 0..Len(results) :
             CountersOf(Usage) =
                AddedCounters(
                    CountersOf(UsageOf(SubSeq(results, 1, k), {})),
                    CountersOf(UsageOf(SubSeq(results, k + 1, Len(results)), {})))
       /\ \A f \in Permutations(DOMAIN results) :
             CountersOf(UsageOf([i \in DOMAIN results |-> results[f[i]]], {}))
                = CountersOf(Usage)

\* Three different queries were aggregated: t was counted twice, u twice and
\* the pair (u, b) twice.
C17_Witness ==
    /\ UsageCalled
    /\ results = <<PyStr(QueryOther), PyStr(QueryRepeated), PyStr(QueryTwoTables)>>
    /\ TableCount(<<"t">>) = 2
    /\ TableCount(<<"u">>) = 2
    /\ PairCount(<<"u">>, <<"b">>) = 2

-----------------------------------------------------------------------------
(* Claims about repeated calls, checked under SpecRepeat.                   *)

\* The counts of a returned value.
CountsIn(usage) ==
    {e.count : e \in Elements(usage.tables) \cup Elements(usage.columns)
                     \cup Elements(usage.table_columns)}

-----------------------------------------------------------------------------
(* Claims about the feedback events, checked under SpecFeedback.            *)

\* The positions in the history of the log_feedback calls for the triple
\* that returned True.
Logged(triple) ==
    {i \in DOMAIN calls :
        /\ calls[i].op = "log_feedback"
        /\ calls[i].triple = triple
        /\ calls[i].output}

\* The feedback rows the table holds for the triple.
StoredFeedback(triple) ==
    SelectSeq(user_events,
              LAMBDA row : /\ row.event_type = "feedback"
                           /\ <<row.user_id, row.conversation_id, row.message_id>> = triple)

\* C19: after any sequence of successful log_feedback calls made one after
\* the other, the table holds at most one feedback event per (user_id,
\* conversation_id, message_id), one exactly when a call was made for the
\* triple, and its feedback_type is the one of the most recent call for the
\* triple; the first call for a triple inserted the event (there was none
\* before and one after) and every later call updated that same event.
C19_OneFeedbackPerTriple ==
    \A triple \in Triples :
        LET rows == StoredFeedback(triple)
            done == Logged(triple)
        IN  /\ Len(rows) <= 1
            /\ (rows = <<>>) <=> (done = {})
            /\ \A i \in done :
                  /\ (\A j \in done : j <= i)
                     => rows[1].feedback_type = calls[i].feedback_type
                  /\ IF \A j \in done : i <= j
                     THEN /\ calls[i].before = <<>>
                          /\ Len(calls[i].after) = 1
                     ELSE /\ Len(calls[i].before) = 1
                          /\ Len(calls[i].after) = 1
                          /\ calls[i].after[1].event_id = calls[i].before[1].event_id
                  /\ \A j \in DOMAIN calls[i].after :
                        calls[i].after[j].feedback_type = calls[i].feedback_type

\* Three successful log_feedback calls were made for one triple, the last
\* with the other feedback type than the one before, and one for another
\* triple.
C19_Witness ==
    \E triple \in Triples, other \in Triples :
        /\ other # triple
        /\ Logged(other) # {}
        /\ \E i, j, k \in Logged(triple) :
              /\ i < j
              /\ j < k
              /\ calls[j].feedback_type # calls[k].feedback_type

\* C20: a log_feedback call that sets an existing feedback event to
\* 'positive' leaves it with no comment; one that sets an existing feedback
\* event to 'negative' leaves the comment it had.
C20_PositiveClearsNegativeKeeps ==
    \A i \in DOMAIN calls :
        (/\ calls[i].op = "log_feedback"
         /\ calls[i].output
         /\ calls[i].before # <<>>)
        => /\ Len(calls[i].after) = Len(calls[i].before)
           /\ \A j \in DOMAIN calls[i].after :
                 calls[i].after[j].comment =
                     IF calls[i].feedback_type = "positive"
                     THEN PyNone
                     ELSE calls[i].before[j].comment

\* A comment was saved on a negative feedback event; a later call for the
\* triple with 'negative' found the comment there, and a still later call
\* with 'positive' found it there too.
C20_Witness ==
    \E i, j \in DOMAIN calls :
        /\ i < j
        /\ calls[i].op = "log_feedback"
        /\ calls[j].op = "log_feedback"
        /\ calls[i].triple = calls[j].triple
        /\ calls[i].output
        /\ calls[j].output
        /\ calls[i].feedback_type = "negative"
        /\ calls[j].feedback_type = "positive"
        /\ calls[i].before # <<>>
        /\ calls[i].before[1].comment \in Comments
        /\ calls[j].before # <<>>
        /\ calls[j].before[1].comment \in Comments
        /\ calls[j].after[1].comment = PyNone


\* The call the step appended to the history.
LastCall == calls'[Len(calls')]

IsCallOf(op) ==
    /\ Len(calls') = Len(calls) + 1
    /\ LastCall.op = op

\* The positions of the negative feedback events of the triple in the table.
NegativeOf(triple) ==
    {i \in DOMAIN user_events :
        /\ user_events[i].event_type = "feedback"
        /\ <<user_events[i].user_id, user_events[i].conversation_id,
              user_events[i].message_id>> = triple
        /\ user_events[i].feedback_type = "negative"}

-----------------------------------------------------------------------------
(* Claims about the favorites, checked under SpecFavorites.                 *)

\* The favorites of the call's before that its after no longer holds.
DeletedBy(call) == call.before \ call.after

\* C22: delete_user_favorite(favorite_id, user_id) returns True exactly
\* when it deleted the favorite with that id owned by that user; when no
\* favorite has the id, or the one that has it is owned by another user, no
\* favorite is deleted and the call returns False.
C22_DeleteTrueIffDeleted ==
    \A i \in DOMAIN calls :
        calls[i].op = "delete_user_favorite"
        => LET owned == {row \in calls[i].before :
                            /\ row.id = calls[i].favorite_id
                            /\ row.user_id = calls[i].user_id}
           IN  /\ calls[i].output <=> (owned # {} /\ DeletedBy(calls[i]) = owned)
               /\ owned = {} => (DeletedBy(calls[i]) = {} /\ ~calls[i].output)

\* The true half of C22: a call deletes the favorite with that id owned by
\* that user and no other, and none when it returns False.
DeletesOwnedOnly ==
    \A i \in DOMAIN calls :
        calls[i].op = "delete_user_favorite"
        => /\ \A row \in DeletedBy(calls[i]) :
                 /\ row.id = calls[i].favorite_id
                 /\ row.user_id = calls[i].user_id
           /\ calls[i].after \subseteq calls[i].before
           /\ ~calls[i].output => calls[i].after = calls[i].before


-----------------------------------------------------------------------------
(* Claims about the keywords FROM and JOIN, checked under SpecExtract.      *)

\* FROM or JOIN, in any case, stands at i as a word of its own: no
\* identifier character before it.
IsKeywordAt(s, i) ==
    /\ i = 1 \/ ~IsIdent(s[i - 1])
    /\ \/ StartsWith(Upper(s), i, KwFrom)
       \/ StartsWith(Upper(s), i, KwJoin)

\* An identifier starts at p, after a keyword and the spaces that follow it.
FollowsKeyword(s, p) ==
    /\ IsIdent(s[p])
    /\ \E i \in 1..(p - 5) :
          /\ IsKeywordAt(s, i)
          /\ \A k \in (i + 4)..(p - 1) : IsSpace(s[k])

RECURSIVE NameEnd(_, _)
\* The last position of the name that starts at p: identifiers joined by
\* single dots.
NameEnd(s, p) ==
    IF /\ p < Len(s)
       /\ \/ IsIdent(s[p + 1])
          \/ /\ s[p + 1] = "."
             /\ IsIdent(s[p])
             /\ p + 1 < Len(s)
             /\ IsIdent(s[p + 2])
    THEN NameEnd(s, p + 1)
    ELSE p

\* The table names of the text: what follows each FROM and JOIN.
ReferencedNames(s) ==
    {Lower(SubSeq(s, p, NameEnd(s, p))) : p \in {q \in DOMAIN s : FollowsKeyword(s, q)}}

\* C23: every FROM or JOIN followed by an identifier, anywhere in the text
\* and inside nested subqueries too, has its table name in the one table
\* set returned for the text.
C23_EveryOccurrenceContributes ==
    (Called /\ sql_query.type = "str")
    => /\ ~Result.raised
       /\ ReferencedNames(sql_query.text) \subseteq Elements(Result.tables)

\* Every FROM and JOIN of the text is a word of its own.
KeywordsStandAlone(s) ==
    \A i \in DOMAIN s :
        (StartsWith(Upper(s), i, KwFrom) \/ StartsWith(Upper(s), i, KwJoin))
        => IsKeywordAt(s, i)

\* The part of C23 that holds: when none of the names has a dot and no
\* identifier ends in FROM or JOIN, every FROM and JOIN of the text, nested
\* or not, has its name in the table set.
OneWordNamesContribute ==
    (/\ Called
     /\ sql_query.type = "str"
     /\ KeywordsStandAlone(sql_query.text)
     /\ \A name \in ReferencedNames(sql_query.text) : "." \notin Elements(name))
    => ReferencedNames(sql_query.text) \subseteq Elements(Result.tables)

\* Three FROMs nested in subqueries went through the extractor.
NestedReached ==
    /\ Called
    /\ sql_query = PyStr(TextNested)
    /\ Elements(Result.tables) = {<<"t">>, <<"u">>, <<"w">>}


\* The first part of a table name: what stands before its first dot.
FirstPart(name) ==
    LET dots == {k \in DOMAIN name : name[k] = "."}
    IN  IF dots = {} THEN name
        ELSE SubSeq(name, 1, (CHOOSE k \in dots : \A l \in dots : k <= l) - 1)

\* The identifiers of the text that follow FROM or JOIN standing as a word
\* of its own, a back quote before the identifier or none, in lowercase.
AfterKeyword(s) ==
    {Lower(SubSeq(s, p, IdentRunEnd(s, p) - 1)) :
        p \in {q \in DOMAIN s :
                  \/ FollowsKeyword(s, q)
                  \/ /\ q > 1
                     /\ IsIdent(s[q])
                     /\ s[q - 1] = BackQuote
                     /\ \E i \in 1..(q - 6) :
                           /\ IsKeywordAt(s, i)
                           /\ \A k \in (i + 4)..(q - 2) : IsSpace(s[k])}}

\* C24: a table name is returned only for an identifier that follows FROM
\* or JOIN standing as a word of its own; an identifier that ends in FROM or
\* JOIN, such as date_from, does not put the word after it in the table set.
C24_OnlyAfterStandaloneKeyword ==
    (Called /\ sql_query.type = "str")
    => \A name \in Elements(Result.tables) :
          FirstPart(name) \in AfterKeyword(sql_query.text)


-----------------------------------------------------------------------------
(* Claims about the fragments of the select list, checked under             *)
(* SpecExtract.                                                             *)

\* The first identifier token of a fragment, in lowercase; <<>> when the
\* fragment has none.
FirstToken(f) ==
    LET starts == {p \in DOMAIN f : IsIdent(f[p])}
    IN  IF starts = {} THEN <<>>
        ELSE LET p == CHOOSE q \in starts : \A r \in starts : q <= r
             IN  Lower(SubSeq(f, p, IdentRunEnd(f, p) - 1))

\* The columns the fragments stand for: the first token of each, the
\* fragments without a token and those whose first token is in the keyword
\* list left out.
ColumnsOfFragments(fragments) ==
    {FirstToken(fragments[i]) : i \in DOMAIN fragments}
        \ ({<<>>} \cup Elements(SqlKeywords))

Commas(s) == {i \in DOMAIN s : s[i] = ","}

\* A generated query SELECT f1, ..., fn FROM ...: the select list is the
\* fragments f1, ..., fn.
SelectListRun ==
    /\ Called
    /\ query.literal = 0
    /\ query.select # <<>>
    /\ query.clauses # <<>>
    /\ Upper(query.clauses[1].kw) = KwFrom

\* C25: each comma-separated fragment of the select list gives at most one
\* column, its first identifier token: the columns of SELECT f1, ..., fn
\* FROM ... are the first tokens of the fragments, an alias after AS is not
\* among them, a fragment whose first token is in the keyword list gives
\* none, and no text gives more columns than it has fragments.
C25_OneColumnPerFragment ==
    /\ (Called /\ sql_query.type = "str")
       => /\ ~Result.raised
          /\ Len(Result.columns) <= Cardinality(Commas(sql_query.text)) + 1
    /\ SelectListRun
       => /\ Elements(Result.columns) = ColumnsOfFragments(query.select)
          /\ Len(Result.columns) <= Len(query.select)
          /\ NoDuplicates(Result.columns)

\* SELECT a AS b, COUNT(x) AS n, `c` as d FROM ... went through the
\* extractor: three fragments, the columns a and c, none of the aliases b,
\* n and d.
C25_Witness ==
    /\ SelectListRun
    /\ Len(query.select) = 3
    /\ query.select[1] = <<"a"," ","A","S"," ","b">>
    /\ Result.columns = << <<"a">>, <<"c">> >>


-----------------------------------------------------------------------------
(* Claims about failures of the database, checked under SpecOutage.         *)

UsageKeys == {"tables", "columns", "table_columns"}

\* C26: get_sql_usage_analytics raises nothing to its caller: every call,
\* the database failing or not, the extractor raising or not, returns a
\* value with exactly the keys tables, columns and table_columns, and the
\* three lists are empty when the connection, the query or the commit
\* failed.
C26_NeverRaisesToCaller ==
    \A i \in DOMAIN calls :
        /\ DOMAIN calls[i].output = UsageKeys
        /\ calls[i].failure # "none"
           => \A key \in UsageKeys : calls[i].output[key] = <<>>

\* A call returned counts; the next one, the database failing at the
\* commit over the same table, returned the three empty lists.
C26_Witness ==
    /\ Len(calls) = 2
    /\ calls[1].failure = "none"
    /\ calls[1].faults = {}
    /\ calls[1].output.tables # <<>>
    /\ calls[2].failure = "commit"
    /\ calls[2].input = calls[1].input
    /\ calls[2].output.tables = <<>>


-----------------------------------------------------------------------------
(* Claims about get_db_connection, checked under SpecConnection.            *)

\* C27: a connection that was opened is closed exactly once on every path,
\* and never more than once on the way; conn.commit() is called if and only
\* if the body of the with-block finished without an exception; when the
\* body raised, conn.rollback() is called and the exception goes on to the
\* caller. No call is made on a connection that was not opened.
C27_ClosedOnceCommittedIffBodyFinished ==
    \A i \in DOMAIN connections :
        LET c == connections[i]
        IN  /\ c.close <= 1
            /\ c.commit <= 1
            /\ c.rollback <= 1
            /\ c.close = 1 => c.pc = "done"
            /\ ~c.opened => (c.commit = 0 /\ c.rollback = 0 /\ c.close = 0)
            /\ c.pc = "done"
               => /\ c.opened => c.close = 1
                  /\ c.opened => (c.commit = 1 <=> c.body = "finished")
                  /\ c.body = "raised" => (c.rollback = 1 /\ c.raised)
                  /\ ~c.opened => c.raised

\* Two with-statements ran to their end: the body of the first finished,
\* its connection was committed and closed; the body of the second raised,
\* its connection was rolled back and closed.
C27_Witness ==
    /\ Len(connections) >= 2
    /\ connections[1] = [pc |-> "done", opened |-> TRUE, body |-> "finished",
                          commit |-> 1, rollback |-> 0, close |-> 1,
                          raised |-> FALSE]
    /\ connections[2] = [pc |-> "done", opened |-> TRUE, body |-> "raised",
                          commit |-> 0, rollback |-> 1, close |-> 1,
                          raised |-> TRUE]


-----------------------------------------------------------------------------
(* Claims about concurrent calls of log_feedback, checked under SpecRace.   *)

\* C28: however the statements of two concurrent log_feedback calls for the
\* same (user_id, conversation_id, message_id) interleave, each call in its
\* own transaction, the table holds at most one feedback event for the
\* triple.
C28_OneFeedbackUnderInterleaving ==
    Len(SelectSeq(user_events,
                  LAMBDA row : /\ row.event_type = "feedback"
                               /\ <<row.user_id, row.conversation_id,
                                     row.message_id>> = SharedTriple)) <= 1


-----------------------------------------------------------------------------
(* A claim about comments and feedback types, checked under SpecFeedback.   *)

\* C29: after any sequence of log_feedback and save_comment calls, every
\* feedback event with a comment that is not NULL has the feedback_type
\* 'negative'.
C29_CommentOnlyOnNegative ==
    \A i \in DOMAIN user_events :
        (user_events[i].event_type = "feedback" /\ user_events[i].comment # PyNone)
        => user_events[i].feedback_type = "negative"

\* A feedback event was inserted as positive, set to negative and given a
\* comment: it carries the comment and is negative.
C29_Witness ==
    \E i \in DOMAIN user_events :
        /\ user_events[i].event_type = "feedback"
        /\ user_events[i].comment # PyNone
        /\ user_events[i].feedback_type = "negative"
        /\ \E j \in DOMAIN calls :
              /\ calls[j].op = "log_feedback"
              /\ calls[j].output
              /\ calls[j].feedback_type = "positive"
              /\ calls[j].triple = <<user_events[i].user_id,
                                     user_events[i].conversation_id,
                                     user_events[i].message_id>>

-----------------------------------------------------------------------------
(* Claims about the chat page, checked under SpecChat.                      *)

\* The positions of calls where a message was sent and get_model_response
\* answered it next, the selection being what it was when it was sent.
Answered ==
    {i \in 1..(Len(calls) - 1) :
        /\ calls[i].op = "handle_all_inputs"
        /\ calls[i].after.chat_trigger.trigger
        /\ calls[i].after # calls[i].before
        /\ calls[i + 1].op = "get_model_response"}

\* The entry (0-based) that received the user message sent at position i.
EntryOf(i) == calls[i].after.session_data.current_session

\* The messages of entry k of a history.
MessagesOf(chat_history, k) == chat_history[k + 1].messages

\* C30: when a message is sent while the selected conversation is entry k
\* of the chat history (k > 0 included), get_model_response stores the
\* messages ending with its bot response in that entry k, which received the
\* user message, and leaves the messages of every other entry as they were.
C30_ResponseStoredInSelectedEntry ==
    \A i \in Answered :
        LET k == EntryOf(i)
            before == calls[i + 1].before
            after == calls[i + 1].after
        IN /\ Len(after.chat_history) = Len(before.chat_history)
           /\ MessagesOf(after.chat_history, k) = after.chat_messages
           /\ ~IsThinking(after.chat_messages[Len(after.chat_messages)])
           /\ after.chat_messages[Len(after.chat_messages)].inner
                  # "thinking-indicator"
           /\ \A j \in 0..(Len(after.chat_history) - 1) :
                  j # k =>
                     MessagesOf(after.chat_history, j)
                         = MessagesOf(before.chat_history, j)

\* The claim at entry 0 alone, for a question that is not the easter egg:
\* there the response is stored where the user message was.
AnsweredInFirstEntry ==
    \A i \in Answered :
        (EntryOf(i) = 0
            /\ Normalized(calls[i].after.chat_trigger.message) # ILoveData)
        => /\ MessagesOf(calls[i + 1].after.chat_history, 0)
                 = calls[i + 1].after.chat_messages
           /\ \A j \in 1..(Len(calls[i + 1].after.chat_history) - 1) :
                  MessagesOf(calls[i + 1].after.chat_history, j)
                      = MessagesOf(calls[i + 1].before.chat_history, j)

\* A message sent in entry 1 was answered and the answer is not in entry 1.
AnsweredOutsideSelected ==
    \E i \in Answered :
        /\ EntryOf(i) = 1
        /\ Normalized(calls[i].after.chat_trigger.message) # ILoveData
        /\ MessagesOf(calls[i + 1].after.chat_history, 1)
               # calls[i + 1].after.chat_messages
        /\ MessagesOf(calls[i + 1].after.chat_history, 0)
               = calls[i + 1].after.chat_messages

\* The easter egg was answered from the page of the layout, where no
\* history was held, and entry 0 still ends with the thinking indicator.
EasterEggNotStored ==
    \E i \in Answered :
        /\ calls[1].before.chat_history = <<>>
        /\ EntryOf(i) = 0
        /\ Normalized(calls[i].after.chat_trigger.message) = ILoveData
        /\ LET messages == MessagesOf(calls[i + 1].after.chat_history, 0)
           IN messages[Len(messages)] = ThinkingIndicator

====
